---- MODULE Spec2Model ----
(***************************************************************************)
(* Task lifecycle event pipeline of the Todo Chatbot backend.              *)
(*                                                                         *)
(* The model follows services/backend/src: the Task entity                 *)
(* (models/task.py), the TaskEvent factory (models/events.py), the two     *)
(* store back ends TaskService can run on (services/memory_store.py, the   *)
(* one get_task_service() wires, and services/dapr_client.py, the remote   *)
(* Dapr sidecar with the same interface) and every operation of            *)
(* TaskService (services/task_service.py), and the reminder callback of    *)
(* the API (api/tasks.py).                                                 *)
(*                                                                         *)
(* A request is a coroutine.  Each action below is the completion of one   *)
(* awaited back end call together with the synchronous code that follows   *)
(* it up to the next await.  With the in-memory store no awaited call      *)
(* ever suspends, so a request runs to its end before another one starts;  *)
(* with the Dapr client every awaited call is an HTTP round trip, and      *)
(* requests interleave at the awaits.                                      *)
(***************************************************************************)
EXTENDS Integers, Sequences, FiniteSets, TLC

VARIABLES
    backend,      \* "memory" (MemoryStore) or "dapr" (DaprClient): TaskService.dapr
    store,        \* the state store: sequence of [key, value], in insertion order
    jobs,         \* live reminder jobs of the Jobs API: job name -> fire time
    audit_log,    \* memory_store._audit_log: events published on task-events
    clock,        \* what datetime.utcnow() returns
    nextUuid,     \* number of task ids uuid4() has handed out
    nextEvt,      \* number of event ids uuid4() has handed out
    nreq,         \* number of requests received so far
    reqs,         \* the requests being served: slot -> coroutine state
    reminders,    \* the events reminder_callback handed to publish_event("reminders")
    deletedKeys,  \* history: keys for which delete_task has returned True
    nd_input,     \* the (current_due, pattern) a run hands to calculate_next_due
    next_dues,    \* history: the calls of calculate_next_due and what they returned
    deliveries,   \* history: the bus deliveries to the consumers and their answers
    occurrences,  \* history: the POST /api/tasks calls of create_next_occurrence
    audit_state,  \* the audit service's state store: key -> audit entry
    nextEntry,    \* number of audit entry ids uuid4() has handed out
    active_connections, \* ConnectionManager.active_connections: user -> sockets
    sockets,      \* the WebSocket objects: whose, their state, what they received
    sends         \* the send_to_user calls in flight: slot -> coroutine state

recurringVars == <<nd_input, next_dues, occurrences>>
auditVars == <<audit_state, nextEntry>>
fanoutVars == <<active_connections, sockets, sends>>
consumerVars == <<recurringVars, auditVars, fanoutVars, deliveries>>
backendVars == <<backend, store, jobs, audit_log, nextEvt, nreq, reqs, reminders,
                 deletedKeys>>

vars == <<backend, store, jobs, audit_log, clock, nextUuid, nextEvt, nreq, reqs,
          reminders, deletedKeys, consumerVars>>

(***************************************************************************)
(* Bounds of the model.                                                    *)
(***************************************************************************)
MaxConc  == 2     \* request slots: requests in flight at the same time
MaxReqs  == 2     \* standalone deployment: requests received in one run
MaxTasks == 2     \* standalone deployment: task ids handed out
MaxClock == 2     \* standalone deployment: the clock stops advancing here
MaxReqsDapr  == 3 \* Dapr deployment: requests received in one run
MaxTasksDapr == 1 \* Dapr deployment: task ids handed out
MaxClockDapr == 1 \* Dapr deployment: the clock stops advancing here
MaxReqsOneUser  == 4 \* one user's session: requests received in one run
MaxTasksOneUser == 1 \* one user's session: task ids handed out
MaxClockOneUser == 1 \* one user's session: the clock stops advancing here
MaxReqsJobs  == 2 \* reminder path: requests received in one run
MaxTasksJobs == 2 \* reminder path: task ids handed out
MaxClockJobs == 1 \* reminder path: the clock stops advancing here

Users == {"u1", "u2"}
Slots == 1..MaxConc

(***************************************************************************)
(* models/task.py                                                          *)
(***************************************************************************)
Null == "null"          \* None in an enum-valued field
NoText == <<Null>>      \* None in a text field; a text is a sequence of characters
NoTime == -1            \* None in a datetime-valued field
NoTask == [none |-> TRUE]   \* None where a Task or a dict is expected

PENDING == "pending"
COMPLETED == "completed"
TaskStatus == {PENDING, COMPLETED}
Priority == {"High", "Medium", "Low"}
RecurrencePattern == {"daily", "weekly", "monthly"}

\* Task(...) as create_task builds it: the defaults of the model's fields.
\* Tags are kept as a set: add_tags goes through set() and no operation
\* reads their order.
Task(id, user_id, req, now) ==
    [ id                 |-> id,
      user_id            |-> user_id,
      title              |-> req.title,
      description        |-> req.description,
      status             |-> PENDING,
      priority           |-> req.priority,
      tags               |-> req.tags,
      due_at             |-> req.due_at,
      remind_at          |-> req.remind_at,
      recurrence_pattern |-> req.recurrence_pattern,
      created_at         |-> now,
      updated_at         |-> now,
      completed_at       |-> NoTime ]

\* task.model_dump(mode="json"), the dict the store is given: the id as its
\* string, every datetime as its ISO 8601 string, None as JSON null; the
\* enums are already held by value (use_enum_values).  Task.model_validate
\* parses the dict back.
JsonNull == <<"null">>

str_uuid(id) == <<"uuid", id>>
UUID(text) == text[2]

isoformat(t) == <<"iso", t>>
fromisoformat(text) == text[2]

DumpTime(t) == IF t = NoTime THEN JsonNull ELSE isoformat(t)
ParseTime(x) == IF x = JsonNull THEN NoTime ELSE fromisoformat(x)

\* (a dump that leaves the reminder time out: what C16 rules out)
model_dump_NoRemindAt(task) ==
    [task EXCEPT !.id = str_uuid(@), !.due_at = DumpTime(@), !.remind_at = JsonNull,
                 !.created_at = DumpTime(@), !.updated_at = DumpTime(@),
                 !.completed_at = DumpTime(@)]

model_dump(task) ==
    [task EXCEPT !.id = str_uuid(@), !.due_at = DumpTime(@), !.remind_at = DumpTime(@),
                 !.created_at = DumpTime(@), !.updated_at = DumpTime(@),
                 !.completed_at = DumpTime(@)]

model_validate(data) ==
    [data EXCEPT !.id = UUID(@), !.due_at = ParseTime(@), !.remind_at = ParseTime(@),
                 !.created_at = ParseTime(@), !.updated_at = ParseTime(@),
                 !.completed_at = ParseTime(@)]

\* (a key built without the owner: what C5 rules out)
get_state_key_NoOwner(user_id, task_id) == <<"task", "", task_id>>

get_state_key(user_id, task_id) == <<"task", user_id, task_id>>

\* (a completion that leaves completed_at alone: what C17 rules out)
mark_completed_StatusOnly(task, now) ==
    [task EXCEPT !.status = COMPLETED, !.updated_at = now]

mark_completed(task, now) ==
    [task EXCEPT !.status = COMPLETED, !.completed_at = now, !.updated_at = now]

(***************************************************************************)
(* models/events.py                                                        *)
(***************************************************************************)
CREATED == "task.created"
UPDATED == "task.updated"
COMPLETED_EVT == "task.completed"
DELETED == "task.deleted"
EventType == {CREATED, UPDATED, COMPLETED_EVT, DELETED}

\* event_type.value.split(".")[-1]
TrailingSegment(type) ==
    CASE type = CREATED       -> "created"
      [] type = UPDATED       -> "updated"
      [] type = COMPLETED_EVT -> "completed"
      [] type = DELETED       -> "deleted"

TaskEvent_create(event_id, event_type, task, metadata, now) ==
    [ specversion |-> "1.0",
      id          |-> event_id,
      source      |-> "backend",
      type        |-> event_type,
      time        |-> now,
      data        |-> [ event_type |-> TrailingSegment(event_type),
                        task_id    |-> task.id,
                        task_data  |-> IF event_type # DELETED THEN model_dump(task) ELSE NoTask,
                        user_id    |-> task.user_id,
                        metadata   |-> metadata ] ]

NoEvent == [none |-> TRUE]

TOPIC_TASK_EVENTS == "task-events"
TOPIC_TASK_UPDATES == "task-updates"

(***************************************************************************)
(* The state store.  services/memory_store.py keeps it in the dict _store, *)
(* which keeps its keys in insertion order; services/dapr_client.py        *)
(* reaches the same operations over HTTP.                                  *)
(***************************************************************************)
Keys(s) == {s[i].key : i \in DOMAIN s}

get_state(s, key) ==
    IF key \in Keys(s)
    THEN s[CHOOSE i \in DOMAIN s : s[i].key = key].value
    ELSE NoTask

save_state(s, key, value) ==
    IF key \in Keys(s)
    THEN [i \in DOMAIN s |-> IF s[i].key = key THEN [key |-> key, value |-> value] ELSE s[i]]
    ELSE Append(s, [key |-> key, value |-> value])

KeyIsNot(key, e) == e.key # key

delete_state(s, key) == SelectSeq(s, LAMBDA e : KeyIsNot(key, e))

IsTaskKey(e) == e.key[1] = "task"

\* MemoryStore.query_state: every entry whose key starts with "task:"; the
\* filter, the sort and the page it is given are not read.
query_state(s, filter_query) == SelectSeq(s, IsTaskKey)

\* How an awaited back end call can end.  MemoryStore always returns True.
\* DaprClient returns the result, returns False/None after logging an
\* httpx.HTTPStatusError, or lets any other httpx error (a timeout, a refused
\* connection) propagate: only HTTPStatusError is caught.
Outcomes == IF backend = "memory" THEN {"ok"} ELSE {"ok", "http_error", "raise"}

(***************************************************************************)
(* Requests.  pc is the awaited call the coroutine is suspended in.        *)
(* result is how the operation ended: "ok" (it returned a task, True or a  *)
(* list), "not_found" (it returned None or False), "failed" (it raised     *)
(* RuntimeError after the store reported a failed write) or "error" (an    *)
(* exception of the back end call propagated).  pubs and jobCalls record   *)
(* the publish and job calls the request made, in order; stored_before is  *)
(* history: what the store held under the task's key when the request's    *)
(* save_state arrived.                                                     *)
(***************************************************************************)
IdleReq ==
    [ pc |-> "idle", op |-> "none", user_id |-> "none", task_id |-> 0,
      arg |-> NoTask, source |-> "api", task |-> NoTask, previous_state |-> NoTask,
      event |-> NoEvent, pubs |-> <<>>, jobCalls |-> <<>>, saved |-> FALSE,
      stored_before |-> NoTask, result |-> "none", ret |-> NoTask ]

InFlight(rq) == rq.pc \notin {"idle", "done"}

\* A request is received in the first slot that serves none.  With the
\* in-memory store a request never suspends, so none is in flight when the
\* event loop starts the next one.
CanReceive(r) ==
    /\ ~InFlight(reqs[r])
    /\ \A s \in Slots : s < r => InFlight(reqs[s])
    /\ backend = "memory" => \A s \in Slots : ~InFlight(reqs[s])

Received(op, user_id, task_id, arg, source, pc) ==
    [IdleReq EXCEPT !.pc = pc, !.op = op, !.user_id = user_id, !.task_id = task_id,
                    !.arg = arg, !.source = source]

Finish(rq, result, ret) == [rq EXCEPT !.pc = "done", !.result = result, !.ret = ret]

\* The partial update of a TaskUpdateRequest: model_dump(exclude_unset=True)
\* holds the fields the caller gave, each with a value or None.
None == [isNone |-> TRUE]
Val(v) == [isNone |-> FALSE, val |-> v]

\* (an update that also clears the description it was not given: what C18
\* rules out)
ApplyUpdates_ClearsAbsent(task, update_data) ==
    [f \in DOMAIN task |->
        IF f \in DOMAIN update_data /\ ~update_data[f].isNone
        THEN update_data[f].val
        ELSE IF f = "description" /\ f \notin DOMAIN update_data THEN NoText
        ELSE task[f]]

\* update_task, "Apply updates": a field of update_data is set on the task
\* unless its value is None.
ApplyUpdates(task, update_data) ==
    [f \in DOMAIN task |->
        IF f \in DOMAIN update_data /\ ~update_data[f].isNone
        THEN update_data[f].val
        ELSE task[f]]

job_name(task) == <<"reminder", task.user_id, task.id>>

(***************************************************************************)
(* create_task                                                             *)
(***************************************************************************)
Receive_create_task(r, user_id, request, source) ==
    /\ CanReceive(r)
    /\ reqs' = [reqs EXCEPT ![r] =
            [Received("create_task", user_id, nextUuid + 1, request, source, "save")
                EXCEPT !.task = Task(nextUuid + 1, user_id, request, clock)]]
    /\ nextUuid' = nextUuid + 1
    /\ nreq' = nreq + 1
    /\ UNCHANGED <<consumerVars, backend, reminders, store, jobs, audit_log, clock, nextEvt, deletedKeys>>

\* get_task, update_task, delete_task, complete_task, add_tags, remove_tags
\* all start with get_task's read of the store.
Receive_task_op(r, op, user_id, task_id, arg, source) ==
    /\ CanReceive(r)
    /\ reqs' = [reqs EXCEPT ![r] = Received(op, user_id, task_id, arg, source, "get")]
    /\ nreq' = nreq + 1
    /\ UNCHANGED <<consumerVars, backend, reminders, store, jobs, audit_log, clock, nextUuid, nextEvt, deletedKeys>>

(***************************************************************************)
(* get_task returns: the caller goes on to its first write.                *)
(***************************************************************************)
AfterGet(rq, task, now) ==
    CASE rq.op = "get_task" ->
            Finish(rq, "ok", task)
      [] rq.op = "update_task" ->
            [rq EXCEPT !.pc = "save",
                       !.previous_state = task,
                       !.task = [ApplyUpdates(task, rq.arg) EXCEPT !.updated_at = now]]
      [] rq.op = "delete_task" ->
            [rq EXCEPT !.pc = "delete", !.task = task]
      [] rq.op = "complete_task" ->
            [rq EXCEPT !.pc = "save", !.task = mark_completed(task, now)]
      [] rq.op = "add_tags" ->
            [rq EXCEPT !.pc = "save",
                       !.task = [task EXCEPT !.tags = task.tags \cup rq.arg, !.updated_at = now]]
      [] rq.op = "remove_tags" ->
            [rq EXCEPT !.pc = "save",
                       !.task = [task EXCEPT !.tags = task.tags \ rq.arg, !.updated_at = now]]

\* (a lookup that answers a missing key with a blank task: what C19 rules out)
get_task_OrBlank(s, user_id, task_id) ==
    LET data  == get_state(s, get_state_key(user_id, task_id))
        blank == [ title |-> <<"a">>, description |-> NoText, priority |-> "Medium",
                   tags |-> {}, due_at |-> NoTime, remind_at |-> NoTime,
                   recurrence_pattern |-> Null ]
    IN IF data = NoTask THEN Task(task_id, user_id, blank, 0) ELSE model_validate(data)

\* get_task on a store that answers: the task parsed from the stored dict,
\* None when the key holds nothing.
get_task(s, user_id, task_id) ==
    LET data == get_state(s, get_state_key(user_id, task_id))
    IN IF data = NoTask THEN NoTask ELSE model_validate(data)

get_task_returns(r) ==
    /\ reqs[r].pc = "get"
    /\ \E o \in Outcomes :
        LET rq   == reqs[r]
            task == IF o = "ok" THEN get_task(store, rq.user_id, rq.task_id) ELSE NoTask
        IN reqs' = [reqs EXCEPT ![r] =
                IF o = "raise" THEN Finish(rq, "error", NoTask)
                ELSE IF task = NoTask THEN Finish(rq, "not_found", NoTask)
                ELSE AfterGet(rq, task, clock)]
    /\ UNCHANGED <<consumerVars, backend, reminders, store, jobs, audit_log, clock, nextUuid, nextEvt, nreq, deletedKeys>>

(***************************************************************************)
(* save_state / delete_state return.  create_task, update_task,            *)
(* complete_task and delete_task raise RuntimeError when the store reports *)
(* failure; add_tags and remove_tags do not read what save_state returns.  *)
(* The event is built right after the write, before the first publish.     *)
(***************************************************************************)
EventTypeOf(op) ==
    CASE op = "create_task"   -> CREATED
      [] op = "complete_task" -> COMPLETED_EVT
      [] op = "delete_task"   -> DELETED
      [] OTHER                -> UPDATED

MetadataOf(rq) ==
    IF rq.op = "update_task"
    THEN [source_action |-> rq.source, previous_state |-> model_dump(rq.previous_state)]
    ELSE [source_action |-> rq.source]

ChecksWrite(op) == op \notin {"add_tags", "remove_tags"}

AfterWrite(rq, o, event_id, now) ==
    IF o = "raise" THEN Finish(rq, "error", NoTask)
    ELSE IF o = "http_error" /\ ChecksWrite(rq.op) THEN Finish(rq, "failed", NoTask)
    ELSE [rq EXCEPT !.pc = "pub1",
                    !.saved = (o = "ok"),
                    !.event = TaskEvent_create(event_id, EventTypeOf(rq.op), rq.task,
                                               MetadataOf(rq), now)]

save_state_returns(r) ==
    /\ reqs[r].pc = "save"
    /\ \E o \in Outcomes :
        LET rq == reqs[r] IN
        /\ store' = IF o = "ok"
                    THEN save_state(store, get_state_key(rq.task.user_id, rq.task.id),
                                    model_dump(rq.task))
                    ELSE store
        /\ reqs' = [reqs EXCEPT ![r] =
                AfterWrite([rq EXCEPT !.stored_before =
                                get_state(store, get_state_key(rq.task.user_id, rq.task.id))],
                           o, nextEvt + 1, clock)]
        /\ nextEvt' = IF reqs'[r].pc = "pub1" THEN nextEvt + 1 ELSE nextEvt
    /\ UNCHANGED <<consumerVars, backend, reminders, jobs, audit_log, clock, nextUuid, nreq, deletedKeys>>

delete_state_returns(r) ==
    /\ reqs[r].pc = "delete"
    /\ \E o \in Outcomes :
        LET rq == reqs[r] IN
        /\ store' = IF o = "ok"
                    THEN delete_state(store, get_state_key(rq.user_id, rq.task_id))
                    ELSE store
        /\ reqs' = [reqs EXCEPT ![r] = AfterWrite(rq, o, nextEvt + 1, clock)]
        /\ nextEvt' = IF reqs'[r].pc = "pub1" THEN nextEvt + 1 ELSE nextEvt
    /\ UNCHANGED <<consumerVars, backend, reminders, jobs, audit_log, clock, nextUuid, nreq, deletedKeys>>

(***************************************************************************)
(* publish_event returns: first on task-events, then on task-updates.      *)
(* What publish_event returns is not read.  MemoryStore appends the events *)
(* of task-events to _audit_log.                                           *)
(***************************************************************************)
TopicOf(pc) == IF pc = "pub1" THEN TOPIC_TASK_EVENTS ELSE TOPIC_TASK_UPDATES

\* What follows the second publish: the reminder step of the operation.
AfterPublish(rq) ==
    CASE rq.op = "create_task" ->
            IF rq.task.remind_at # NoTime
            THEN [rq EXCEPT !.pc = "schedule"]
            ELSE Finish(rq, "ok", rq.task)
      [] rq.op = "update_task" ->
            IF "remind_at" \in DOMAIN rq.arg \/ "due_at" \in DOMAIN rq.arg
            THEN [rq EXCEPT !.pc = "cancel"]
            ELSE Finish(rq, "ok", rq.task)
      [] rq.op \in {"delete_task", "complete_task"} ->
            [rq EXCEPT !.pc = "cancel"]
      [] OTHER ->
            Finish(rq, "ok", rq.task)

Published(rq, o) ==
    [rq EXCEPT !.pubs = Append(rq.pubs, [topic |-> TopicOf(rq.pc), outcome |-> o,
                                         event |-> rq.event])]

AfterPublishCall(rq, o) ==
    IF o = "raise" THEN Finish(Published(rq, o), "error", NoTask)
    ELSE IF rq.pc = "pub1" THEN [Published(rq, o) EXCEPT !.pc = "pub2"]
    ELSE AfterPublish(Published(rq, o))

publish_event_returns(r) ==
    /\ reqs[r].pc \in {"pub1", "pub2"}
    /\ \E o \in Outcomes :
        LET rq == reqs[r] IN
        /\ reqs' = [reqs EXCEPT ![r] = AfterPublishCall(rq, o)]
        /\ audit_log' = IF backend = "memory" /\ TopicOf(rq.pc) = TOPIC_TASK_EVENTS
                        THEN Append(audit_log, rq.event)
                        ELSE audit_log
    /\ UNCHANGED <<consumerVars, backend, reminders, store, jobs, clock, nextUuid, nextEvt, nreq, deletedKeys>>

(***************************************************************************)
(* _cancel_reminder / _schedule_reminder return.  MemoryStore only logs    *)
(* the job calls; DaprClient deletes or posts the job at the Jobs API.     *)
(* What they return is not read.                                           *)
(***************************************************************************)
JobCalled(rq, call, o) ==
    [rq EXCEPT !.jobCalls = Append(rq.jobCalls,
                    [call |-> call, name |-> job_name(rq.task), outcome |-> o])]

AfterCancel(rq, o) ==
    IF o = "raise" THEN Finish(JobCalled(rq, "cancel", o), "error", NoTask)
    ELSE IF rq.op = "update_task" /\ rq.task.remind_at # NoTime
         THEN [JobCalled(rq, "cancel", o) EXCEPT !.pc = "schedule"]
    ELSE IF rq.op = "delete_task"
         THEN Finish(JobCalled(rq, "cancel", o), "ok", NoTask)
    ELSE Finish(JobCalled(rq, "cancel", o), "ok", rq.task)

cancel_job(js, name) == [n \in DOMAIN js \ {name} |-> js[n]]

job_data(task) ==
    [task_id |-> task.id, user_id |-> task.user_id, title |-> task.title,
     due_at |-> task.due_at, remind_at |-> task.remind_at]

schedule_job(js, name, schedule_at, data) ==
    [n \in DOMAIN js \cup {name} |->
        IF n = name THEN [schedule_at |-> schedule_at, data |-> data] ELSE js[n]]

cancel_job_returns(r) ==
    /\ reqs[r].pc = "cancel"
    /\ \E o \in Outcomes :
        LET rq == reqs[r] IN
        /\ jobs' = IF backend = "dapr" /\ o = "ok"
                   THEN cancel_job(jobs, job_name(rq.task))
                   ELSE jobs
        /\ reqs' = [reqs EXCEPT ![r] = AfterCancel(rq, o)]
        /\ deletedKeys' = IF rq.op = "delete_task" /\ o # "raise"
                          THEN deletedKeys \cup {get_state_key(rq.user_id, rq.task_id)}
                          ELSE deletedKeys
    /\ UNCHANGED <<consumerVars, backend, reminders, store, audit_log, clock, nextUuid, nextEvt, nreq>>

AfterSchedule(rq, o) ==
    IF o = "raise" THEN Finish(JobCalled(rq, "schedule", o), "error", NoTask)
    ELSE Finish(JobCalled(rq, "schedule", o), "ok", rq.task)

schedule_job_returns(r) ==
    /\ reqs[r].pc = "schedule"
    /\ \E o \in Outcomes :
        LET rq == reqs[r] IN
        /\ jobs' = IF backend = "dapr" /\ o = "ok"
                   THEN schedule_job(jobs, job_name(rq.task), rq.task.remind_at,
                                     job_data(rq.task))
                   ELSE jobs
        /\ reqs' = [reqs EXCEPT ![r] = AfterSchedule(rq, o)]
    /\ UNCHANGED <<consumerVars, backend, reminders, store, audit_log, clock, nextUuid, nextEvt, nreq, deletedKeys>>

(***************************************************************************)
(* api/tasks.py, reminder_callback: the Jobs API fires a job scheduled      *)
(* "@once" when its time has come and posts the job's data to the callback, *)
(* which builds a reminder.due event and hands it to a DaprClient's         *)
(* publish_event on the topic reminders.                                    *)
(***************************************************************************)
ZeroUuid == 0    \* UUID(int=0); uuid4() never returns it

DaprOutcomes == {"ok", "http_error", "raise"}

ReminderDueEvent(data, now) ==
    [ specversion |-> "1.0",
      type        |-> "reminder.due",
      source      |-> "backend",
      id          |-> ZeroUuid,
      time        |-> now,
      data        |-> [ task_id   |-> data.task_id,
                        title     |-> data.title,
                        due_at    |-> data.due_at,
                        remind_at |-> data.remind_at,
                        user_id   |-> data.user_id,
                        notification_channels |-> <<"in_app">> ] ]

reminder_callback(name) ==
    /\ name \in DOMAIN jobs
    /\ jobs[name].schedule_at <= clock
    /\ \E o \in DaprOutcomes :
         reminders' = Append(reminders, [job |-> name, outcome |-> o,
                                         event |-> ReminderDueEvent(jobs[name].data, clock)])
    /\ jobs' = cancel_job(jobs, name)
    /\ UNCHANGED <<consumerVars, backend, store, audit_log, clock, nextUuid, nextEvt, nreq, reqs, deletedKeys>>

\* Time passes.
Tick ==
    /\ clock' = clock + 1
    /\ UNCHANGED <<consumerVars, backend, reminders, store, jobs, audit_log, nextUuid, nextEvt, nreq, reqs, deletedKeys>>

(***************************************************************************)
(* list_tasks: the store query, then the text search and the tag filter    *)
(* on the parsed tasks, then the page.                                     *)
(***************************************************************************)
\* str.lower() on the characters the model uses
LowerChar(c) == CASE c = "A" -> "a" [] c = "B" -> "b" [] OTHER -> c
Lower(text) == [i \in DOMAIN text |-> LowerChar(text[i])]

\* needle in hay, for Python strings
Contains(hay, needle) ==
    \E i \in 0..(Len(hay) - Len(needle)) :
        \A j \in 1..Len(needle) : hay[i + j] = needle[j]

\* The loop over the query results: a task is skipped when the search text
\* is in neither its title nor its description, or when it has none of the
\* tags asked for.
Listed(filters, task) ==
    /\ filters.search # NoText /\ filters.search # <<>> =>
          \/ Contains(Lower(task.title), Lower(filters.search))
          \/ /\ task.description # NoText
             /\ task.description # <<>>
             /\ Contains(Lower(task.description), Lower(filters.search))
    /\ filters.tags # {} => filters.tags \cap task.tags # {}

RECURSIVE SelectListed(_, _)
SelectListed(filters, results) ==
    IF results = <<>> THEN <<>>
    ELSE IF Listed(filters, model_validate(Head(results).value))
         THEN <<model_validate(Head(results).value)>> \o SelectListed(filters, Tail(results))
         ELSE SelectListed(filters, Tail(results))

Min(a, b) == IF a < b THEN a ELSE b

\* tasks[start:end]
Slice(tasks, start, end) ==
    IF start >= Len(tasks) THEN <<>> ELSE SubSeq(tasks, start + 1, Min(end, Len(tasks)))

list_tasks(s, user_id, filters) ==
    LET query_filter == [user_id |-> user_id, status |-> filters.status,
                         priority |-> filters.priority,
                         due_before |-> filters.due_before,
                         due_after |-> filters.due_after]
        results == query_state(s, query_filter)
        tasks   == SelectListed(filters, results)
        start   == (filters.page - 1) * filters.page_size
    IN [ tasks |-> Slice(tasks, start, start + filters.page_size),
         total |-> Len(tasks) ]

Receive_list_tasks(r, user_id, filters) ==
    /\ CanReceive(r)
    /\ reqs' = [reqs EXCEPT ![r] = Received("list_tasks", user_id, 0, filters, "api", "query")]
    /\ nreq' = nreq + 1
    /\ UNCHANGED <<consumerVars, backend, reminders, store, jobs, audit_log, clock, nextUuid, nextEvt, deletedKeys>>

query_state_returns(r) ==
    /\ reqs[r].pc = "query"
    /\ backend = "memory"
    /\ reqs' = [reqs EXCEPT ![r] =
            Finish(reqs[r], "ok", list_tasks(store, reqs[r].user_id, reqs[r].arg))]
    /\ UNCHANGED <<consumerVars, backend, reminders, store, jobs, audit_log, clock, nextUuid, nextEvt, nreq, deletedKeys>>

(***************************************************************************)
(* The requests of the model.                                              *)
(***************************************************************************)
\* TaskCreateRequest: the fields of the body, and the field's default for
\* each one the body leaves out.
TaskCreateRequestDefaults ==
    [ description |-> NoText, priority |-> "Medium", tags |-> {},
      due_at |-> NoTime, remind_at |-> NoTime, recurrence_pattern |-> Null ]

TaskCreateRequest(body) ==
    [f \in DOMAIN body \cup DOMAIN TaskCreateRequestDefaults |->
        IF f \in DOMAIN body THEN body[f] ELSE TaskCreateRequestDefaults[f]]

\* The bodies posted: a title alone, and a body that gives every field.
CreateBodies ==
    { [ title |-> <<"a">> ],
      [ title |-> <<"A", "b">>, description |-> <<"b">>, priority |-> "High", tags |-> {"x"},
        due_at |-> 2, remind_at |-> 1, recurrence_pattern |-> "weekly" ] }

CreateRequests == {TaskCreateRequest(body) : body \in CreateBodies}

\* TaskUpdateRequest: no field, one field with a value, one field with an
\* explicit null, and the two fields of test_update_task.
UpdateRequests ==
    { [f \in {} |-> None],
      [title |-> Val(<<"b">>)],
      [description |-> Val(<<"a">>)],
      [description |-> None],
      [priority |-> Val("Low")],
      [tags |-> Val({"y"})],
      [due_at |-> Val(1)],
      [due_at |-> None],
      [remind_at |-> Val(2)],
      [remind_at |-> None],
      [recurrence_pattern |-> None],
      [status |-> Val(COMPLETED)],
      [status |-> Val(PENDING)],
      [title |-> Val(<<"b">>), priority |-> Val("Low")] }

TagLists == { {"x"}, {"x", "y"} }

\* TaskFilterParams: the defaults, a tag filter, a search, a page of one.
DefaultFilters ==
    [ status |-> Null, priority |-> Null, due_before |-> NoTime, due_after |-> NoTime,
      tags |-> {}, search |-> NoText, page |-> 1, page_size |-> 20 ]

FilterParams ==
    { DefaultFilters,
      [DefaultFilters EXCEPT !.tags = {"x"}],
      [DefaultFilters EXCEPT !.search = <<"a">>],
      [DefaultFilters EXCEPT !.page_size = 1] }

ArgsOf(op) ==
    CASE op = "update_task"                -> UpdateRequests
      [] op \in {"add_tags", "remove_tags"} -> TagLists
      [] OTHER                             -> {NoTask}

TaskOps == {"get_task", "update_task", "delete_task", "complete_task", "add_tags",
            "remove_tags"}

NoJobs == [n \in {} |-> NoTask]

\* None where a timestamp string is expected
NoDue == [date |-> <<0, 0, 0>>, hour |-> 0, tz |-> "None"]

\* The WebSocket objects of a run and the slots of send_to_user calls.
MaxSockets == 2   \* WebSocket connections opened in one run
MaxSends == 1     \* send_to_user calls in flight at the same time
Sockets == 1..MaxSockets
Senders == 1..MaxSends

\* a WebSocket nobody has opened yet
NewSocket == [user_id |-> "none", state |-> "new", inbox |-> <<>>, frames |-> 0]

\* no send_to_user call in the slot
IdleSend == [pc |-> "idle"]

\* the consumers at rest
NoInput == [current_due |-> NoDue, pattern |-> "none"]

InitConsumers ==
    /\ nd_input = NoInput
    /\ next_dues = <<>>
    /\ deliveries = <<>>
    /\ occurrences = <<>>
    /\ audit_state = <<>>
    /\ nextEntry = 0
    /\ active_connections = <<>>
    /\ sockets = [ws \in Sockets |-> NewSocket]
    /\ sends = [c \in Senders |-> IdleSend]

InitWith(b) ==
    /\ backend = b
    /\ store = <<>>
    /\ jobs = NoJobs
    /\ audit_log = <<>>
    /\ clock = 0
    /\ nextUuid = 0
    /\ nextEvt = 0
    /\ nreq = 0
    /\ reqs = [r \in Slots |-> IdleReq]
    /\ reminders = <<>>
    /\ deletedKeys = {}
    /\ InitConsumers

(***************************************************************************)
(* The standalone deployment: TaskService on MemoryStore, as                *)
(* get_task_service() builds it.                                           *)
(***************************************************************************)
Init == InitWith("memory")

\* One awaited call of a request in flight returns.
Serve ==
    \/ \E r \in Slots : get_task_returns(r)
    \/ \E r \in Slots : save_state_returns(r)
    \/ \E r \in Slots : delete_state_returns(r)
    \/ \E r \in Slots : publish_event_returns(r)
    \/ \E r \in Slots : cancel_job_returns(r)
    \/ \E r \in Slots : schedule_job_returns(r)

Next ==
    \/ /\ nreq < MaxReqs
       /\ nextUuid < MaxTasks
       /\ \E r \in Slots, u \in Users, req \in CreateRequests :
            Receive_create_task(r, u, req, "api")
    \/ /\ nreq < MaxReqs
       /\ \E r \in Slots, op \in TaskOps, u \in Users, t \in 1..MaxTasks :
            \E arg \in ArgsOf(op) : Receive_task_op(r, op, u, t, arg, "api")
    \/ /\ nreq < MaxReqs
       /\ \E r \in Slots, u \in Users, f \in FilterParams : Receive_list_tasks(r, u, f)
    \/ \E r \in Slots : query_state_returns(r)
    \/ Serve
    \/ clock < MaxClock /\ Tick

Spec == Init /\ [][Next]_vars

(***************************************************************************)
(* The Dapr deployment: TaskService on a DaprClient.  Every awaited call   *)
(* is an HTTP round trip to the sidecar: it can fail, and the requests in  *)
(* flight interleave at the awaits.                                        *)
(***************************************************************************)
CreateRequestsDapr ==
    { [ title |-> <<"a">>, description |-> NoText, priority |-> "Medium", tags |-> {},
        due_at |-> 2, remind_at |-> 1, recurrence_pattern |-> Null ] }

UpdateRequestsDapr ==
    { [title |-> Val(<<"b">>)], [remind_at |-> Val(2)] }

ArgsOfDapr(op) ==
    CASE op = "update_task"                -> UpdateRequestsDapr
      [] op \in {"add_tags", "remove_tags"} -> { {"x"} }
      [] OTHER                             -> {NoTask}

InitDapr == InitWith("dapr")

NextDapr ==
    \/ /\ nreq < MaxReqsDapr
       /\ nextUuid < MaxTasksDapr
       /\ \E r \in Slots, req \in CreateRequestsDapr :
            Receive_create_task(r, "u1", req, "api")
    \/ /\ nreq < MaxReqsDapr
       /\ \E r \in Slots, op \in TaskOps, t \in 1..MaxTasksDapr :
            \E arg \in ArgsOfDapr(op) : Receive_task_op(r, op, "u1", t, arg, "api")
    \/ Serve
    \/ clock < MaxClockDapr /\ Tick

SpecDapr == InitDapr /\ [][NextDapr]_vars

(***************************************************************************)
(* One user's session on the standalone deployment, from an empty store:   *)
(* create, list, get, complete and delete, as tests/test_tasks_api.py      *)
(* drives them.                                                            *)
(***************************************************************************)
SessionOps == {"get_task", "complete_task", "delete_task"}

NextOneUser ==
    \/ /\ nreq < MaxReqsOneUser
       /\ nextUuid < MaxTasksOneUser
       /\ \E r \in Slots, req \in CreateRequests : Receive_create_task(r, "u1", req, "api")
    \/ /\ nreq < MaxReqsOneUser
       /\ \E r \in Slots, op \in SessionOps, t \in 1..MaxTasksOneUser :
            Receive_task_op(r, op, "u1", t, NoTask, "api")
    \/ /\ nreq < MaxReqsOneUser
       /\ \E r \in Slots : Receive_list_tasks(r, "u1", DefaultFilters)
    \/ \E r \in Slots : query_state_returns(r)
    \/ Serve
    \/ clock < MaxClockOneUser /\ Tick

SpecOneUser == Init /\ [][NextOneUser]_vars

(***************************************************************************)
(* Listing: one user creates, completes and deletes tasks and lists them   *)
(* with each kind of filter and page.                                      *)
(***************************************************************************)
MaxReqsList  == 4 \* listing: requests received in one run
MaxTasksList == 2 \* listing: task ids handed out
MaxClockList == 1 \* listing: the clock stops advancing here

\* TaskFilterParams with one filter each, and the second page of size one.
ListFilters ==
    FilterParams \cup
    { [DefaultFilters EXCEPT !.status = COMPLETED],
      [DefaultFilters EXCEPT !.priority = "High"],
      [DefaultFilters EXCEPT !.due_before = 2],
      [DefaultFilters EXCEPT !.due_after = 1],
      [DefaultFilters EXCEPT !.search = <<"B">>],
      [DefaultFilters EXCEPT !.page = 2, !.page_size = 1] }

NextList ==
    \/ /\ nreq < MaxReqsList
       /\ nextUuid < MaxTasksList
       /\ \E r \in Slots, req \in CreateRequests : Receive_create_task(r, "u1", req, "api")
    \/ /\ nreq < MaxReqsList
       /\ \E r \in Slots, op \in {"complete_task", "delete_task"}, t \in 1..MaxTasksList :
            Receive_task_op(r, op, "u1", t, NoTask, "api")
    \/ /\ nreq < MaxReqsList
       /\ \E r \in Slots, f \in ListFilters : Receive_list_tasks(r, "u1", f)
    \/ \E r \in Slots : query_state_returns(r)
    \/ Serve
    \/ clock < MaxClockList /\ Tick

SpecList == Init /\ [][NextList]_vars

(***************************************************************************)
(* The reminder path of the Dapr deployment: the requests above together   *)
(* with the Jobs API firing the jobs they scheduled.                       *)
(***************************************************************************)
NextJobs ==
    \/ /\ nreq < MaxReqsJobs
       /\ nextUuid < MaxTasksJobs
       /\ \E r \in Slots, u \in Users, req \in CreateRequestsDapr :
            Receive_create_task(r, u, req, "api")
    \/ /\ nreq < MaxReqsJobs
       /\ \E r \in Slots, op \in TaskOps, u \in Users, t \in 1..MaxTasksJobs :
            \E arg \in ArgsOfDapr(op) : Receive_task_op(r, op, u, t, arg, "api")
    \/ Serve
    \/ clock < MaxClockJobs /\ Tick
    \/ \E name \in DOMAIN jobs : reminder_callback(name)

SpecJobs == InitDapr /\ [][NextJobs]_vars

(***************************************************************************)
(* recurring-task-service/src/handlers.py: calculate_next_due.             *)
(*                                                                         *)
(* A timestamp string is a calendar date, an hour and the text after the   *)
(* seconds: "" (naive), "Z" or "+00:00".  A datetime is the date, the hour *)
(* and whether it carries a timezone.  Minutes and seconds are carried     *)
(* unchanged by every operation below and are left out.  Ordinals count    *)
(* the days from 1 January 2024, the first day of the model's calendar.    *)
(***************************************************************************)
IsLeap(y) == y % 4 = 0 /\ (y % 100 # 0 \/ y % 400 = 0)

\* calendar.monthrange(y, m)[1]
DaysInMonth(y, m) ==
    CASE m \in {4, 6, 9, 11} -> 30
      [] m = 2               -> IF IsLeap(y) THEN 29 ELSE 28
      [] OTHER               -> 31

DaysInYear(y) == IF IsLeap(y) THEN 366 ELSE 365

RECURSIVE DaysBeforeMonth(_, _)
DaysBeforeMonth(y, m) ==
    IF m = 1 THEN 0 ELSE DaysBeforeMonth(y, m - 1) + DaysInMonth(y, m - 1)

RECURSIVE DaysBeforeYear(_)
DaysBeforeYear(y) ==
    IF y = 2024 THEN 0 ELSE DaysBeforeYear(y - 1) + DaysInYear(y - 1)

\* date.toordinal(), counted from the first day of the model's calendar
toordinal(date) ==
    DaysBeforeYear(date[1]) + DaysBeforeMonth(date[1], date[2]) + date[3] - 1

RECURSIVE MonthOfOrdinal(_, _, _)
MonthOfOrdinal(n, y, m) ==
    IF n < DaysInMonth(y, m) THEN <<y, m, n + 1>>
    ELSE MonthOfOrdinal(n - DaysInMonth(y, m), y, m + 1)

RECURSIVE YearOfOrdinal(_, _)
YearOfOrdinal(n, y) ==
    IF n < DaysInYear(y) THEN MonthOfOrdinal(n, y, 1)
    ELSE YearOfOrdinal(n - DaysInYear(y), y + 1)

\* date.fromordinal()
fromordinal(n) == YearOfOrdinal(n, 2024)

\* what a failed call produces instead of a datetime
ValueError == [date |-> <<0, 0, 0>>, hour |-> 0, aware |-> FALSE, error |-> "ValueError"]
TypeError == [date |-> <<0, 0, 0>>, hour |-> 0, aware |-> FALSE, error |-> "TypeError"]

datetime(date, hour, aware) ==
    [date |-> date, hour |-> hour, aware |-> aware, error |-> "none"]

\* current_due.replace("Z", "+00:00")
replace_Z(s) == IF s.tz = "Z" THEN [s EXCEPT !.tz = "+00:00"] ELSE s

\* datetime.fromisoformat: "" gives a naive datetime, "+00:00" an aware one,
\* any other text after the seconds is not a timestamp
datetime_fromisoformat(s) ==
    CASE s.tz = ""       -> datetime(s.date, s.hour, FALSE)
      [] s.tz = "+00:00" -> datetime(s.date, s.hour, TRUE)
      [] OTHER           -> ValueError

\* datetime.isoformat(): an aware datetime prints its offset
datetime_isoformat(dt) ==
    [date |-> dt.date, hour |-> dt.hour, tz |-> IF dt.aware THEN "+00:00" ELSE ""]

\* isoformat() + "Z"
isoformat_Z(dt) == [datetime_isoformat(dt) EXCEPT !.tz = @ \o "Z"]

\* The day the service's clock shows when the model's clock shows 0.
StartDay == <<2025, 1, 30>>

\* datetime.utcnow(): naive; every reading is at 9 o'clock
utcnow(now) == datetime(fromordinal(toordinal(StartDay) + now), 9, FALSE)

\* dt + timedelta(days=n), dt - timedelta(days=n)
timedelta_add(dt, n) == [dt EXCEPT !.date = fromordinal(toordinal(@) + n)]

\* dt + relativedelta(months=1): the month after, the day clamped to its length
relativedelta_months1(dt) ==
    LET y == IF dt.date[2] = 12 THEN dt.date[1] + 1 ELSE dt.date[1]
        m == IF dt.date[2] = 12 THEN 1 ELSE dt.date[2] + 1
        d == IF dt.date[3] < DaysInMonth(y, m) THEN dt.date[3] ELSE DaysInMonth(y, m)
    IN  [dt EXCEPT !.date = <<y, m, d>>]

\* a month taken as thirty days
calculate_next_due_30Days(current_due, pattern, now) ==
    LET base_date == IF current_due # NoDue
                     THEN datetime_fromisoformat(replace_Z(current_due))
                     ELSE utcnow(now)
    IN  CASE base_date.error # "none" -> base_date
          [] pattern = "daily"        -> timedelta_add(base_date, 1)
          [] pattern = "weekly"       -> timedelta_add(base_date, 7)
          [] pattern = "monthly"      -> timedelta_add(base_date, 30)
          [] OTHER                    -> timedelta_add(base_date, 1)

\* calculate_next_due(current_due, pattern); now is what utcnow() reads
calculate_next_due(current_due, pattern, now) ==
    LET base_date == IF current_due # NoDue
                     THEN datetime_fromisoformat(replace_Z(current_due))
                     ELSE utcnow(now)
    IN  CASE base_date.error # "none" -> base_date
          [] pattern = "daily"        -> timedelta_add(base_date, 1)
          [] pattern = "weekly"       -> timedelta_add(base_date, 7)
          [] pattern = "monthly"      -> relativedelta_months1(base_date)
          [] OTHER                    -> timedelta_add(base_date, 1)

\* One call of calculate_next_due on the run's input.
Call_calculate_next_due ==
    /\ next_dues' = Append(next_dues,
                           [current_due |-> nd_input.current_due,
                            pattern     |-> nd_input.pattern,
                            now         |-> clock,
                            result      |-> calculate_next_due(nd_input.current_due,
                                                               nd_input.pattern, clock)])
    /\ UNCHANGED <<fanoutVars, backendVars, clock, nextUuid, nd_input, occurrences, auditVars,
                   deliveries>>

(***************************************************************************)
(* calculate_next_due on its own: a run fixes one (current_due, pattern)   *)
(* and calls the function with it, at the same or at different times.      *)
(***************************************************************************)
MaxCalls == 2          \* calls of calculate_next_due in one run
MaxClockNextDue == 2   \* the clock stops advancing here

DueDates ==
    { <<2024, 1, 31>>, <<2024, 2, 29>>, <<2024, 12, 31>>, <<2025, 1, 31>>, <<2025, 2, 28>>,
      <<2025, 3, 31>>, <<2025, 12, 15>>, <<2025, 12, 28>>, <<2026, 2, 10>>, <<2026, 5, 30>> }

\* due dates are at 17:00:00, written without a timezone or with "Z"
DueStrings ==
    {NoDue} \cup { [date |-> d, hour |-> 17, tz |-> z] : d \in DueDates, z \in {"", "Z"} }

\* "yearly" stands for every pattern the function does not know
Patterns == {"daily", "weekly", "monthly", "yearly"}

InitNextDue ==
    /\ backend = "memory"
    /\ store = <<>>
    /\ jobs = NoJobs
    /\ audit_log = <<>>
    /\ clock = 0
    /\ nextUuid = 0
    /\ nextEvt = 0
    /\ nreq = 0
    /\ reqs = [r \in Slots |-> IdleReq]
    /\ reminders = <<>>
    /\ deletedKeys = {}
    /\ nd_input \in [current_due : DueStrings, pattern : Patterns]
    /\ next_dues = <<>>
    /\ deliveries = <<>>
    /\ occurrences = <<>>
    /\ audit_state = <<>>
    /\ nextEntry = 0
    /\ active_connections = <<>>
    /\ sockets = [ws \in Sockets |-> NewSocket]
    /\ sends = [c \in Senders |-> IdleSend]

NextNextDue ==
    \/ Len(next_dues) < MaxCalls /\ Call_calculate_next_due
    \/ clock < MaxClockNextDue /\ Tick

SpecNextDue == InitNextDue /\ [][NextNextDue]_vars

(***************************************************************************)
(* Properties                                                              *)
(***************************************************************************)
MutatingOps == {"create_task", "update_task", "complete_task", "delete_task",
                "add_tags", "remove_tags"}

Topics(pubs) == [i \in DOMAIN pubs |-> pubs[i].topic]

\* C1: every mutating operation that wrote the store successfully makes
\* exactly two publish attempts by the time it ends, the first on task-events
\* and the second on task-updates, both with the same event; an operation
\* that ends with not-found makes none.
C1_TwoPublishes ==
    \A r \in Slots :
        LET rq == reqs[r] IN
        rq.pc = "done" /\ rq.op \in MutatingOps =>
            /\ rq.saved =>
                  /\ Topics(rq.pubs) = <<TOPIC_TASK_EVENTS, TOPIC_TASK_UPDATES>>
                  /\ rq.pubs[1].event = rq.pubs[2].event
            /\ rq.result = "not_found" => rq.pubs = <<>>

\* C2: every task in the store has completed_at set if and only if its
\* status is completed.
C2_CompletedAtIffCompleted ==
    \A i \in DOMAIN store :
        LET task == model_validate(store[i].value) IN
        (task.completed_at # NoTime) <=> (task.status = COMPLETED)

\* C3: delete is terminal: a key for which delete_task has returned True is
\* not in the store, so get_task on it finds nothing.
C3_DeleteTerminal ==
    \A k \in deletedKeys : k \notin Keys(store) /\ get_state(store, k) = NoTask

OwnedBy(s, user_id) == SelectSeq(s, LAMBDA e : e.value.user_id = user_id)

\* C4: a list_tasks call returns only tasks whose user_id is the caller's,
\* and its total is the number of the caller's tasks that pass the filters,
\* whatever other users hold in the store.
C4_ListOnlyOwn ==
    [][ \A r \in Slots :
            reqs[r].pc = "query" /\ reqs'[r].pc = "done" =>
                LET ret == reqs'[r].ret
                    own == SelectListed(reqs[r].arg, OwnedBy(store, reqs[r].user_id))
                IN /\ \A i \in DOMAIN ret.tasks : ret.tasks[i].user_id = reqs[r].user_id
                   /\ ret.total = Len(own) ]_vars

\* The task with this id exists and belongs to another user.
OwnedByOther(s, user_id, task_id) ==
    \E i \in DOMAIN s :
        model_validate(s[i].value).id = task_id /\ model_validate(s[i].value).user_id # user_id

\* C5: get, update, complete, delete, add_tags and remove_tags called by a
\* user who does not own the task end with not-found at the lookup, change
\* neither the store nor the reminder jobs, and publish nothing.
C5_NotOwnerNotFound ==
    [][ \A r \in Slots :
            /\ reqs[r].pc = "get"
            /\ reqs'[r] # reqs[r]
            /\ OwnedByOther(store, reqs[r].user_id, reqs[r].task_id)
            => /\ reqs'[r].pc = "done"
               /\ reqs'[r].result = "not_found"
               /\ reqs'[r].ret = NoTask
               /\ reqs'[r].pubs = <<>>
               /\ reqs'[r].jobCalls = <<>>
               /\ store' = store
               /\ jobs' = jobs
               /\ audit_log' = audit_log ]_vars

C5_Witness ==
    \E r \in Slots :
        /\ reqs[r].pc = "done"
        /\ reqs[r].op = "delete_task"
        /\ reqs[r].result = "not_found"
        /\ OwnedByOther(store, reqs[r].user_id, reqs[r].task_id)

\* None, in the type of the field
NullOf(f) ==
    CASE f \in {"title", "description"} -> NoText
      [] f \in {"due_at", "remind_at"}  -> NoTime
      [] OTHER                          -> Null

\* C6: the task an update writes differs from the task it read in exactly
\* the fields of the partial update: an absent field keeps its value, a field
\* given a value takes it, a field given an explicit null becomes null
\* (updated_at aside, which every update sets).
C6_UpdateAppliesPartial ==
    \A r \in Slots :
        LET rq == reqs[r] IN
        rq.op = "update_task" /\ rq.saved =>
            \A f \in DOMAIN rq.task \ {"updated_at"} :
                rq.task[f] = IF f \notin DOMAIN rq.arg THEN rq.previous_state[f]
                             ELSE IF rq.arg[f].isNone THEN NullOf(f)
                             ELSE rq.arg[f].val

\* C7: from one write of a task to the next, the stored updated_at never
\* decreases.
C7_UpdatedAtMonotone ==
    [][ \A k \in Keys(store) \cap Keys(store') :
            model_validate(get_state(store', k)).updated_at
                >= model_validate(get_state(store, k)).updated_at ]_vars

\* C8: a mutating operation whose store write failed signals failure and
\* publishes nothing: only an operation that wrote the store returns a
\* result or makes a publish attempt.
C8_FailedWriteFails ==
    \A r \in Slots :
        LET rq == reqs[r] IN
        rq.op \in MutatingOps /\ ~rq.saved =>
            rq.result \notin {"ok"} /\ rq.pubs = <<>>

JobCallsOf(rq) == {rq.jobCalls[i].call : i \in DOMAIN rq.jobCalls}

\* The reminder step the operation owes after its publishes.
ReminderStepRan(rq) ==
    CASE rq.op = "create_task" ->
            rq.task.remind_at # NoTime => "schedule" \in JobCallsOf(rq)
      [] rq.op = "update_task" ->
            "remind_at" \in DOMAIN rq.arg \/ "due_at" \in DOMAIN rq.arg =>
                "cancel" \in JobCallsOf(rq)
      [] rq.op \in {"delete_task", "complete_task"} ->
            "cancel" \in JobCallsOf(rq)
      [] OTHER -> TRUE

JobCallRaised(rq) == \E i \in DOMAIN rq.jobCalls : rq.jobCalls[i].outcome = "raise"

PublishFailed(rq) == \E i \in DOMAIN rq.pubs : rq.pubs[i].outcome # "ok"

\* C9: when a publish attempt fails after a successful store write, the
\* operation still makes its second publish attempt, still runs its reminder
\* step, and returns its result (unless the reminder call itself raises).
C9_PublishFailureTolerated ==
    \A r \in Slots :
        LET rq == reqs[r] IN
        rq.pc = "done" /\ rq.op \in MutatingOps /\ rq.saved /\ PublishFailed(rq) =>
            /\ Len(rq.pubs) = 2
            /\ ReminderStepRan(rq)
            /\ rq.result = "ok" \/ JobCallRaised(rq)

\* What the operation wrote to the store.
WrittenBy(rq) == IF rq.saved THEN model_dump(rq.task) ELSE NoTask

TypeSegments ==
    { <<"task.created", "created">>, <<"task.updated", "updated">>,
      <<"task.completed", "completed">>, <<"task.deleted", "deleted">> }

\* C10: in every event handed to publish_event, the snapshot is null exactly
\* when the event is task.deleted; otherwise it is the task the operation
\* wrote to the store; and the payload's event_type is the trailing segment
\* of the envelope type.
C10_EventSnapshot ==
    \A r \in Slots : \A i \in DOMAIN reqs[r].pubs :
        LET e == reqs[r].pubs[i].event IN
        /\ (e.data.task_data = NoTask) <=> (e.type = DELETED)
        /\ e.type # DELETED => e.data.task_data = WrittenBy(reqs[r])
        /\ <<e.type, e.data.event_type>> \in TypeSegments

\* C11: every task.updated event handed to publish_event, whether update_task,
\* add_tags or remove_tags built it, has in its metadata a previous_state that
\* is the task the store held right before the operation's write.
C11_UpdatedCarriesPreviousState ==
    \A r \in Slots : \A i \in DOMAIN reqs[r].pubs :
        LET e == reqs[r].pubs[i].event IN
        e.type = UPDATED =>
            /\ "previous_state" \in DOMAIN e.data.metadata
            /\ e.data.metadata.previous_state = reqs[r].stored_before

\* The event ids one request published under.
EventIdsOf(rq) == {rq.pubs[i].event.id : i \in DOMAIN rq.pubs}

\* C12: event ids are unique per emission: the events of two different
\* operations have different ids, the reminder.due events of two different
\* callbacks have different ids, and no reminder.due event shares its id with
\* a task event.
C12_EventIdsUnique ==
    /\ \A r1, r2 \in Slots : r1 # r2 => EventIdsOf(reqs[r1]) \cap EventIdsOf(reqs[r2]) = {}
    /\ \A i, j \in DOMAIN reminders :
            i # j => reminders[i].event.id # reminders[j].event.id
    /\ \A i \in DOMAIN reminders : \A r \in Slots :
            reminders[i].event.id \notin EventIdsOf(reqs[r])

\* The operation is a create with remind_at set, or an update that sets
\* remind_at.
SetsReminder(rq) ==
    \/ rq.op = "create_task" /\ rq.arg.remind_at # NoTime
    \/ /\ rq.op = "update_task"
       /\ "remind_at" \in DOMAIN rq.arg
       /\ ~rq.arg["remind_at"].isNone

ScheduleCalls(rq) == {i \in DOMAIN rq.jobCalls : rq.jobCalls[i].call = "schedule"}

\* C13: when a create with remind_at set, or an update that sets remind_at,
\* returns its task, a live job exists under reminder:{user_id}:{task_id} and
\* its fire time is the remind_at of the stored task; a create without
\* remind_at makes no schedule call.
C13_OneLiveJob ==
    [][ \A r \in Slots :
            reqs[r].pc # "done" /\ reqs'[r].pc = "done" /\ reqs'[r].result = "ok" =>
                LET rq   == reqs'[r]
                    name == <<"reminder", rq.user_id, rq.task_id>>
                    key  == get_state_key(rq.user_id, rq.task_id)
                IN /\ SetsReminder(rq) =>
                        /\ name \in DOMAIN jobs'
                        /\ key \in Keys(store')
                        /\ jobs'[name].schedule_at = get_task(store', rq.user_id, rq.task_id).remind_at
                   /\ rq.op = "create_task" /\ rq.arg.remind_at = NoTime =>
                        ScheduleCalls(rq) = {} ]_vars

Calls(rq) == [i \in DOMAIN rq.jobCalls |-> rq.jobCalls[i].call]

TouchesReminder(rq) == "remind_at" \in DOMAIN rq.arg \/ "due_at" \in DOMAIN rq.arg

ClearsReminder(rq) == "remind_at" \in DOMAIN rq.arg /\ rq.arg["remind_at"].isNone

\* C14: an update that returned its task and whose partial update includes
\* due_at or remind_at has cancelled the task's job and then scheduled one
\* only if the written task has remind_at set; an update that clears
\* remind_at has scheduled none; an update that includes neither field has
\* made no job call.
C14_UpdateReplacesJob ==
    \A r \in Slots :
        LET rq == reqs[r] IN
        rq.pc = "done" /\ rq.op = "update_task" /\ rq.result = "ok" =>
            /\ TouchesReminder(rq) =>
                  Calls(rq) = IF rq.task.remind_at # NoTime
                              THEN <<"cancel", "schedule">> ELSE <<"cancel">>
            /\ ClearsReminder(rq) => Calls(rq) = <<"cancel">>
            /\ ~TouchesReminder(rq) => Calls(rq) = <<>>

\* C15: when complete_task or delete_task returns successfully, no job
\* reminder:{user_id}:{task_id} is live, and the operation has made its store
\* write, then its two publishes, then one cancel call.
C15_NoJobAfterCompleteOrDelete ==
    [][ \A r \in Slots :
            /\ reqs[r].pc # "done"
            /\ reqs'[r].pc = "done"
            /\ reqs'[r].op \in {"complete_task", "delete_task"}
            /\ reqs'[r].result = "ok"
            => /\ <<"reminder", reqs'[r].user_id, reqs'[r].task_id>> \notin DOMAIN jobs'
               /\ reqs'[r].saved
               /\ Len(reqs'[r].pubs) = 2
               /\ Calls(reqs'[r]) = <<"cancel">> ]_vars

History == [i \in DOMAIN audit_log |-> audit_log[i].type]

\* C17: from an empty store and for one user: a list that returns after the
\* create alone has total 1 and holds the created task, pending; a get of the
\* task that returns after create and complete shows it completed with
\* completed_at set; after create, complete and delete a get of the task
\* returns not-found and a list returns total 0.
C17_EndToEnd ==
    [][ \A r \in Slots :
            reqs[r].pc # "done" /\ reqs'[r].pc = "done" =>
                LET rq == reqs'[r] IN
                /\ rq.op = "list_tasks" /\ History = <<CREATED>> =>
                      /\ rq.ret.total = 1
                      /\ Len(rq.ret.tasks) = 1
                      /\ rq.ret.tasks[1].id = audit_log[1].data.task_id
                      /\ rq.ret.tasks[1].status = PENDING
                /\ rq.op = "get_task" /\ History = <<CREATED, COMPLETED_EVT>>
                   /\ rq.task_id = audit_log[1].data.task_id =>
                      /\ rq.result = "ok"
                      /\ rq.ret.status = COMPLETED
                      /\ rq.ret.completed_at # NoTime
                /\ rq.op = "get_task" /\ History = <<CREATED, COMPLETED_EVT, DELETED>>
                   /\ rq.task_id = audit_log[1].data.task_id =>
                      rq.result = "not_found"
                /\ rq.op = "list_tasks" /\ History = <<CREATED, COMPLETED_EVT, DELETED>> =>
                      rq.ret.total = 0 /\ rq.ret.tasks = <<>> ]_vars

\* The session create, complete, delete, get has run to its end.
C17_Witness ==
    /\ History = <<CREATED, COMPLETED_EVT, DELETED>>
    /\ \E r \in Slots : /\ reqs[r].pc = "done"
                         /\ reqs[r].op = "get_task"
                         /\ reqs[r].task_id = audit_log[1].data.task_id
                         /\ reqs[r].result = "not_found"

\* The request is an update_task with an empty partial update, being served.
EmptyUpdate(rq) == rq.op = "update_task" /\ InFlight(rq) /\ DOMAIN rq.arg = {}

\* C18: no step of an update_task with an empty partial update changes a
\* field of the stored task other than updated_at, makes a job call or
\* changes the reminder jobs.
C18_EmptyUpdateFrame ==
    [][ \A r \in Slots :
            EmptyUpdate(reqs[r]) /\ reqs'[r] # reqs[r] =>
                LET before == get_task(store, reqs[r].user_id, reqs[r].task_id)
                    after  == get_task(store', reqs[r].user_id, reqs[r].task_id)
                IN /\ (before = NoTask) <=> (after = NoTask)
                   /\ before # NoTask =>
                        \A f \in DOMAIN before \ {"updated_at"} : after[f] = before[f]
                   /\ reqs'[r].jobCalls = <<>>
                   /\ jobs' = jobs ]_vars

\* An empty update of a task with a reminder has returned, and it wrote a
\* later updated_at.
C18_Witness ==
    \E r \in Slots :
        /\ reqs[r].pc = "done"
        /\ reqs[r].op = "update_task"
        /\ DOMAIN reqs[r].arg = {}
        /\ reqs[r].result = "ok"
        /\ reqs[r].task.remind_at # NoTime
        /\ reqs[r].task.updated_at > reqs[r].previous_state.updated_at
        /\ get_task(store, reqs[r].user_id, reqs[r].task_id) = reqs[r].task

\* C19: delete_task on an id the store does not hold under the caller's key
\* ends at its lookup: it returns False without raising, changes neither the
\* store nor the reminder jobs, publishes nothing and makes no cancel call;
\* so does a delete_task that follows a successful one.
C19_DeleteMissing ==
    [][ \A r \in Slots :
            /\ reqs[r].op = "delete_task"
            /\ reqs[r].pc = "get"
            /\ reqs'[r] # reqs[r]
            /\ get_state_key(reqs[r].user_id, reqs[r].task_id) \notin Keys(store)
            => /\ reqs'[r].pc = "done"
               /\ reqs'[r].result = "not_found"
               /\ reqs'[r].pubs = <<>>
               /\ reqs'[r].jobCalls = <<>>
               /\ store' = store
               /\ jobs' = jobs
               /\ audit_log' = audit_log ]_vars

\* A delete_task of a task that an earlier delete_task removed has returned.
C19_Witness ==
    \E r \in Slots :
        /\ reqs[r].pc = "done"
        /\ reqs[r].op = "delete_task"
        /\ reqs[r].result = "not_found"
        /\ get_state_key(reqs[r].user_id, reqs[r].task_id) \in deletedKeys
        /\ History = <<CREATED, DELETED>>

\* C20: the write of a complete_task on a task that is already completed is
\* made (the call is not rejected) and leaves the stored task completed, with
\* the completed_at the first completion set.
C20_CompleteIdempotent ==
    [][ \A r \in Slots :
            LET before == get_task(store, reqs[r].user_id, reqs[r].task_id)
                after  == get_task(store', reqs[r].user_id, reqs[r].task_id)
            IN /\ reqs[r].op = "complete_task"
               /\ reqs[r].pc = "save"
               /\ reqs'[r].pc # "save"
               /\ before # NoTask
               /\ before.status = COMPLETED
               => /\ reqs'[r].saved
                  /\ after.status = COMPLETED
                  /\ after.completed_at = before.completed_at ]_vars

(***************************************************************************)
(* The consumers' endpoints.  Dapr posts each message of a topic to the    *)
(* subscriber's route and reads the answer: SUCCESS acknowledges the       *)
(* message, RETRY (status 500) has it delivered again.                     *)
(***************************************************************************)
SUCCESS == "SUCCESS"
RETRY == "RETRY"

\* structlog's BoundLogger.info(event, *args, **kw), as the services call it:
\* the message is the parameter event, so a keyword argument named event is
\* a second value for it and the call raises TypeError before it logs.
logger_info(kw) == IF "event" \in DOMAIN kw THEN "TypeError" ELSE "none"

\* every endpoint answers SUCCESS whatever happened
try_except_AlwaysSuccess(raised) == SUCCESS

\* try: ... return {"status": "SUCCESS"}
\* except Exception: return JSONResponse(500, {"status": "RETRY", ...})
try_except(raised) == IF raised # "none" THEN RETRY ELSE SUCCESS

\* a body that is no JSON document: request.json() raises
Malformed == [malformed |-> TRUE]

\* a message of a topic, as the backend's publish_event posts it
CloudEvent(id, type, task_id, user_id, task_data, metadata) ==
    [ id   |-> id,
      type |-> type,
      data |-> [ task_id |-> task_id, user_id |-> user_id, task_data |-> task_data,
                 metadata |-> metadata ] ]

(***************************************************************************)
(* recurring-task-service: main.py and handlers.py                         *)
(***************************************************************************)
\* None where a datetime is expected
NoDatetime == [date |-> <<0, 0, 0>>, hour |-> 0, aware |-> FALSE, error |-> "None"]

\* hours from the start of the calendar, and back
to_hours(dt) == 24 * toordinal(dt.date) + dt.hour
from_hours(h, aware) == datetime(fromordinal(h \div 24), h % 24, aware)

\* the reminder keeps the original task's timestamp
new_remind_at_Copied(task_data, next_due) ==
    IF task_data.due_at = NoDue \/ task_data.remind_at = NoDue
    THEN [raised |-> "none", remind_at |-> NoDue]
    ELSE [raised |-> "none", remind_at |-> task_data.remind_at]

\* create_next_occurrence, lines 98-108: the remind_at of the new task, NoDue
\* when the key is not set.  Subtracting a naive and an aware datetime raises.
new_remind_at(task_data, next_due) ==
    LET original_due    == task_data.due_at
        original_remind == task_data.remind_at
        due_dt    == datetime_fromisoformat(replace_Z(original_due))
        remind_dt == datetime_fromisoformat(replace_Z(original_remind))
        offset    == to_hours(due_dt) - to_hours(remind_dt)
        new_remind == from_hours(to_hours(next_due) - offset, next_due.aware)
    IN  IF original_due = NoDue \/ original_remind = NoDue
        THEN [raised |-> "none", remind_at |-> NoDue]
        ELSE IF due_dt.error # "none" \/ remind_dt.error # "none"
        THEN [raised |-> "ValueError", remind_at |-> NoDue]
        ELSE IF due_dt.aware # remind_dt.aware
        THEN [raised |-> "TypeError", remind_at |-> NoDue]
        ELSE [raised |-> "none", remind_at |-> isoformat_Z(new_remind)]

\* pydantic's parse of a datetime field of the body: the text after the
\* seconds is nothing, "Z" or an offset; None stays None
parse_datetime(s) ==
    CASE s = NoDue                -> NoDatetime
      [] s.tz = ""                -> datetime(s.date, s.hour, FALSE)
      [] s.tz \in {"Z", "+00:00"} -> datetime(s.date, s.hour, TRUE)
      [] OTHER                    -> ValueError

\* get_user_id: the token of "Bearer <token>"
get_user_id(authorization) == authorization[2]

\* What the backend did with a POST
BackendResponses == {"201", "500", "unreachable"}

\* POST /api/tasks of the backend: the body is validated as a
\* TaskCreateRequest (422 when it is not one) and create_task builds the task.
\* resp is what becomes of a valid request.
post_tasks(body, authorization, resp, id, now) ==
    LET due_at    == parse_datetime(body.due_at)
        remind_at == parse_datetime(body.remind_at)
        valid == /\ body.title # NoText
                 /\ body.priority \in Priority
                 /\ body.recurrence_pattern \in RecurrencePattern \cup {Null}
                 /\ due_at.error \in {"none", "None"}
                 /\ remind_at.error \in {"none", "None"}
        request == [ title |-> body.title, description |-> body.description,
                     priority |-> body.priority, tags |-> body.tags,
                     due_at |-> due_at, remind_at |-> remind_at,
                     recurrence_pattern |-> body.recurrence_pattern ]
    IN  CASE resp = "unreachable" -> [status |-> "ConnectError", task |-> NoTask]
          [] ~valid               -> [status |-> "422", task |-> NoTask]
          [] resp = "500"         -> [status |-> "500", task |-> NoTask]
          [] OTHER                -> [status |-> "201",
                                      task |-> Task(id, get_user_id(authorization),
                                                    request, now)]

\* what a handler did: the exception it raised, the body it posted and the
\* task the backend created
Returned == [raised |-> "none", body |-> NoTask, task |-> NoTask]
Raised(e) == [raised |-> e, body |-> NoTask, task |-> NoTask]

\* create_next_occurrence(task_data, next_due); a snapshot carries every
\* field of the task, so that no default of .get applies
create_next_occurrence(task_data, next_due, resp, id, now) ==
    LET user_id  == task_data.user_id
        remind   == new_remind_at(task_data, next_due)
        new_task == [ title |-> task_data.title,
                      description |-> task_data.description,
                      priority |-> task_data.priority,
                      tags |-> task_data.tags,
                      recurrence_pattern |-> task_data.recurrence_pattern,
                      due_at |-> isoformat_Z(next_due),
                      remind_at |-> remind.remind_at ]
        response == post_tasks(new_task, <<"Bearer", user_id>>, resp, id, now)
    IN  IF remind.raised # "none" THEN Raised(remind.raised)
        ELSE [ raised |-> CASE response.status = "201"          -> "none"
                            [] response.status = "ConnectError" -> "ConnectError"
                            [] OTHER                            -> "HTTPStatusError",
               body |-> new_task,
               task |-> response.task ]

\* handle_task_event(event)
handle_task_event(event, resp, id, now) ==
    LET data      == event.data
        task_data == data.task_data
    IN  IF task_data = NoTask THEN Returned
        ELSE IF task_data.recurrence_pattern = Null THEN Returned
        ELSE LET next_due == calculate_next_due(task_data.due_at,
                                                task_data.recurrence_pattern, now)
             IN  IF next_due.error # "none" THEN Raised(next_due.error)
                 ELSE create_next_occurrence(task_data, next_due, resp, id, now)

\* the handler was not called
NotCalled == [raised |-> "none", body |-> NoTask, task |-> NoTask, called |-> FALSE]

\* POST /events/task of the recurring-task-service
receive_task_event(body, resp, id, now) ==
    IF body = Malformed
    THEN [status |-> try_except("JSONDecodeError"), raised |-> "JSONDecodeError",
          handler |-> NotCalled]
    ELSE IF body.type # COMPLETED_EVT
    THEN [status |-> try_except("none"), raised |-> "none", handler |-> NotCalled]
    ELSE LET log == logger_info([event |-> body])
             h   == handle_task_event(body, resp, id, now)
         IN  IF log # "none"
             THEN [status |-> try_except(log), raised |-> log, handler |-> NotCalled]
             ELSE [status |-> try_except(h.raised), raised |-> h.raised,
                   handler |-> [raised |-> h.raised, body |-> h.body, task |-> h.task,
                                called |-> TRUE]]

\* One call of a handler, for the history
Handled(event, resp, now, h) ==
    [event |-> event, resp |-> resp, now |-> now, raised |-> h.raised, body |-> h.body,
     task |-> h.task]

\* what the endpoint answered for a message, for the history
RecurringDelivery(event, resp, r) ==
    [service |-> "recurring", event |-> event, resp |-> resp,
     raised |-> r.raised, status |-> r.status, task |-> r.handler.task]

\* Dapr delivers a message of task-events to the recurring-task-service.
Deliver_recurring(event, resp) ==
    LET r == receive_task_event(event, resp, nextUuid + 1, clock)
    IN  /\ deliveries' = Append(deliveries, RecurringDelivery(event, resp, r))
        /\ occurrences' = IF r.handler.called
                          THEN Append(occurrences, Handled(event, resp, clock, r.handler))
                          ELSE occurrences
        /\ nextUuid' = IF r.handler.task # NoTask THEN nextUuid + 1 ELSE nextUuid
        /\ UNCHANGED <<fanoutVars, backendVars, clock, nd_input, next_dues, auditVars>>

\* handle_task_event is called with a task.completed message.
Call_handle_task_event(event, resp) ==
    LET h == handle_task_event(event, resp, nextUuid + 1, clock)
    IN  /\ occurrences' = Append(occurrences, Handled(event, resp, clock, h))
        /\ nextUuid' = IF h.task # NoTask THEN nextUuid + 1 ELSE nextUuid
        /\ UNCHANGED <<fanoutVars, backendVars, clock, nd_input, next_dues, auditVars, deliveries>>

\* The snapshots of the messages: a task with and without a recurrence
\* pattern, with and without due_at and remind_at, the timestamps naive or
\* with "Z".
TimeString(date, tz) == [date |-> date, hour |-> 17, tz |-> tz]

Snapshot(user_id, due_at, remind_at, pattern) ==
    [ id |-> str_uuid(1), user_id |-> user_id, title |-> <<"a">>, description |-> <<"d">>,
      status |-> COMPLETED, priority |-> "High", tags |-> {"x"},
      due_at |-> due_at, remind_at |-> remind_at, recurrence_pattern |-> pattern ]

Snapshots ==
    { Snapshot("u1", TimeString(<<2026, 2, 10>>, "Z"), TimeString(<<2026, 2, 9>>, "Z"), "weekly"),
      Snapshot("u2", TimeString(<<2025, 1, 31>>, ""), TimeString(<<2025, 1, 29>>, ""), "monthly"),
      Snapshot("u1", TimeString(<<2025, 12, 28>>, ""), NoDue, "weekly"),
      Snapshot("u1", NoDue, TimeString(<<2025, 1, 30>>, ""), "daily"),
      Snapshot("u1", NoDue, NoDue, "monthly"),
      Snapshot("u1", TimeString(<<2025, 1, 31>>, ""), TimeString(<<2025, 1, 30>>, "Z"), "daily"),
      Snapshot("u1", TimeString(<<2025, 1, 31>>, ""), TimeString(<<2025, 1, 30>>, ""), Null) }

CompletedEvents ==
    { CloudEvent(1, COMPLETED_EVT, str_uuid(1), td.user_id, td, [source_action |-> "api"]) :
        td \in Snapshots }
    \cup { CloudEvent(1, COMPLETED_EVT, str_uuid(1), "u1", NoTask, [source_action |-> "api"]) }

OtherEvents ==
    { CloudEvent(2, CREATED, str_uuid(1), "u1",
                 Snapshot("u1", TimeString(<<2026, 2, 10>>, "Z"), NoDue, "weekly"),
                 [source_action |-> "api"]),
      CloudEvent(3, UPDATED, str_uuid(1), "u1",
                 Snapshot("u1", TimeString(<<2026, 2, 10>>, "Z"), NoDue, "weekly"),
                 [source_action |-> "chat"]),
      CloudEvent(4, DELETED, str_uuid(1), "u1", NoTask, [source_action |-> "api"]) }

TaskEvents == CompletedEvents \cup OtherEvents

(***************************************************************************)
(* The recurring-task-service as deployed: the messages of task-events     *)
(* reach handle_task_event through the endpoint.                           *)
(***************************************************************************)
MaxDeliveries == 2       \* messages delivered in one run
MaxClockRecurring == 1   \* the clock stops advancing here

NextRecurring ==
    \/ /\ Len(deliveries) < MaxDeliveries
       /\ \E e \in TaskEvents, resp \in BackendResponses : Deliver_recurring(e, resp)
    \/ clock < MaxClockRecurring /\ Tick

SpecRecurring == Init /\ [][NextRecurring]_vars

(***************************************************************************)
(* Redelivery: a message of task-events stays with the broker until the    *)
(* endpoint answers SUCCESS for it, and Dapr delivers it again after every *)
(* RETRY.  The history keeps the last delivery of each message.            *)
(***************************************************************************)
\* The completions published: recurring tasks with naive timestamps, and a
\* task without a pattern.
RedeliveredEvents ==
    { e \in CompletedEvents :
        /\ e.data.task_data # NoTask
        /\ e.data.task_data.due_at # NoDue
        /\ e.data.task_data.due_at.tz = ""
        /\ e.data.task_data.remind_at # NoDue => e.data.task_data.remind_at.tz = "" }

Held(event) ==
    \E i \in 1..Len(deliveries) :
        deliveries[i].service = "task-events" /\ deliveries[i].event = event

DeliveredAt(event) ==
    { i \in 1..Len(deliveries) :
        deliveries[i].service = "recurring" /\ deliveries[i].event = event }

Acknowledged(event) == \E i \in DeliveredAt(event) : deliveries[i].status = SUCCESS

\* complete_task publishes the message to task-events.
Publish_completed(event) ==
    /\ ~Held(event)
    /\ deliveries' = Append(deliveries, [service |-> "task-events", event |-> event])
    /\ UNCHANGED <<fanoutVars, backendVars, clock, nextUuid, recurringVars, auditVars>>

\* Dapr delivers a message it holds, for the first time or again.
Redeliver(event, resp) ==
    LET r == receive_task_event(event, resp, nextUuid + 1, clock)
    IN  /\ Held(event)
        /\ ~Acknowledged(event)
        /\ deliveries' = IF DeliveredAt(event) = {}
                         THEN Append(deliveries, RecurringDelivery(event, resp, r))
                         ELSE [i \in 1..Len(deliveries) |->
                                 IF i \in DeliveredAt(event)
                                 THEN RecurringDelivery(event, resp, r)
                                 ELSE deliveries[i]]
        /\ nextUuid' = IF r.handler.task # NoTask THEN nextUuid + 1 ELSE nextUuid
        /\ UNCHANGED <<fanoutVars, backendVars, clock, recurringVars, auditVars>>

NextRedelivery ==
    \/ \E e \in RedeliveredEvents : Publish_completed(e)
    \/ \E e \in RedeliveredEvents, resp \in BackendResponses : Redeliver(e, resp)

\* Dapr keeps delivering what it holds, and the backend is up again and
\* again.
SpecRedelivery ==
    /\ Init
    /\ [][NextRedelivery]_vars
    /\ \A e \in RedeliveredEvents :
         /\ WF_vars(\E resp \in BackendResponses : Redeliver(e, resp))
         /\ SF_vars(Redeliver(e, "201"))

(***************************************************************************)
(* handle_task_event on its own, called with task.completed messages.      *)
(***************************************************************************)
MaxHandled == 2           \* calls of handle_task_event in one run
MaxClockOccurrence == 1   \* the clock stops advancing here

NextOccurrence ==
    \/ /\ Len(occurrences) < MaxHandled
       /\ \E e \in CompletedEvents, resp \in BackendResponses :
            Call_handle_task_event(e, resp)
    \/ clock < MaxClockOccurrence /\ Tick

SpecOccurrence == Init /\ [][NextOccurrence]_vars

(***************************************************************************)
(* audit-service: main.py and handlers.py.  The service writes its entries *)
(* to the Dapr state store with one POST each; the store keeps one value   *)
(* per key.                                                                *)
(***************************************************************************)
\* the whole type is kept as the action
action_of_WholeType(event_type) == event_type

\* event_type.split(".")[-1] if "." in event_type else event_type
action_of(event_type) ==
    IF event_type \in EventType THEN TrailingSegment(event_type) ELSE event_type

\* one key per user and task
audit_key_PerTask(entry) == <<"audit", entry.user_id, entry.task_id>>

\* f"audit:{entry['user_id']}:{entry['id']}"
audit_key(entry) == <<"audit", entry.user_id, entry.id>>

\* a failed write is raised to the caller
save_audit_entry_Raises(s, entry, outcome) ==
    IF outcome = "ok"
    THEN [state |-> save_state(s, audit_key(entry), entry), saved |-> TRUE, raised |-> "none"]
    ELSE [state |-> s, saved |-> FALSE, raised |-> "HTTPError"]

\* save_audit_entry(entry) on the store s: True when the store took the
\* write, False when the POST failed (status or transport: httpx.HTTPError)
save_audit_entry(s, entry, outcome) ==
    IF outcome = "ok"
    THEN [state |-> save_state(s, audit_key(entry), entry), saved |-> TRUE, raised |-> "none"]
    ELSE [state |-> s, saved |-> FALSE, raised |-> "none"]

\* the audit entry handle_task_event builds; a message without metadata
\* (NoTask here) has the default {} of data.get("metadata", {})
audit_entry(event, id, now) ==
    LET data     == event.data
        metadata == data.metadata
    IN  [ id             |-> str_uuid(id),
          task_id        |-> data.task_id,
          user_id        |-> data.user_id,
          action         |-> action_of(event.type),
          task_snapshot  |-> data.task_data,
          previous_state |-> IF "previous_state" \in DOMAIN metadata
                             THEN metadata.previous_state ELSE NoTask,
          timestamp      |-> now,
          source         |-> IF "source_action" \in DOMAIN metadata
                             THEN metadata.source_action ELSE "unknown",
          event_id       |-> event.id ]

\* POST /events/task of the audit-service: receive_task_event and the
\* handle_task_event it awaits
audit_receive_task_event(body, s, id, now, outcome) ==
    IF body = Malformed
    THEN [status |-> try_except("JSONDecodeError"), raised |-> "JSONDecodeError",
          entry |-> NoTask, saved |-> FALSE, state |-> s]
    ELSE LET log   == logger_info([event_type |-> body.type])
             entry == audit_entry(body, id, now)
             save  == save_audit_entry(s, entry, outcome)
         IN  IF log # "none"
             THEN [status |-> try_except(log), raised |-> log, entry |-> NoTask,
                   saved |-> FALSE, state |-> s]
             ELSE [status |-> try_except(save.raised), raised |-> save.raised,
                   entry |-> entry, saved |-> save.saved, state |-> save.state]

\* Dapr delivers a message of task-events to the audit-service.
Deliver_audit(event, outcome) ==
    LET r == audit_receive_task_event(event, audit_state, nextEntry + 1, clock, outcome)
    IN  /\ deliveries' = Append(deliveries, [service |-> "audit", event |-> event,
                                             raised |-> r.raised, status |-> r.status,
                                             entry |-> r.entry, saved |-> r.saved])
        /\ audit_state' = r.state
        /\ nextEntry' = IF r.entry # NoTask THEN nextEntry + 1 ELSE nextEntry
        /\ UNCHANGED <<fanoutVars, backendVars, clock, nextUuid, recurringVars>>

\* The messages of task-events: one of each type, the update with the state
\* before it, and a message whose type has no dot.  A message delivered twice
\* is a redelivery.
AuditEvents ==
    OtherEvents
    \cup { CloudEvent(5, UPDATED, str_uuid(2), "u2", Snapshot("u2", NoDue, NoDue, Null),
                      [source_action |-> "chat",
                       previous_state |-> Snapshot("u2", NoDue, NoDue, "daily")]),
           CloudEvent(6, COMPLETED_EVT, str_uuid(1), "u1",
                      Snapshot("u1", NoDue, NoDue, "daily"), NoTask),
           CloudEvent(7, "ping", str_uuid(1), "u1", NoTask, [source_action |-> "api"]) }

MaxAudited == 3       \* messages delivered to the audit-service in one run
MaxClockAudit == 1    \* the clock stops advancing here

NextAudit ==
    \/ /\ Len(deliveries) < MaxAudited
       /\ \E e \in AuditEvents \cup {Malformed}, o \in DaprOutcomes : Deliver_audit(e, o)
    \/ clock < MaxClockAudit /\ Tick

SpecAudit == Init /\ [][NextAudit]_vars

(***************************************************************************)
(* websocket-service: handlers.py (ConnectionManager, handle_task_update)  *)
(* and main.py.  All coroutines of the service run on one event loop and   *)
(* interleave at their awaits.  get_user_connections returns the set the   *)
(* registry holds, not a copy, and send_to_user iterates it with an await  *)
(* in the loop body: a set iterator raises RuntimeError when the size of   *)
(* its set is not the size it started with.                                *)
(***************************************************************************)
\* every connection of the registry, whoever it belongs to
get_user_connections_All(ac, user_id) == UNION {ac[u] : u \in DOMAIN ac}

\* self.active_connections.get(user_id, set())
get_user_connections(ac, user_id) == IF user_id \in DOMAIN ac THEN ac[user_id] ELSE {}

\* ConnectionManager.connect, after the accept
connect(ac, websocket, user_id) ==
    [u \in DOMAIN ac \cup {user_id} |->
        IF u = user_id THEN get_user_connections(ac, u) \cup {websocket} ELSE ac[u]]

\* the user's key is kept when the set becomes empty
disconnect_KeepsKey(ac, websocket, user_id) ==
    IF user_id \notin DOMAIN ac THEN ac ELSE [ac EXCEPT ![user_id] = @ \ {websocket}]

\* ConnectionManager.disconnect
disconnect(ac, websocket, user_id) ==
    IF user_id \notin DOMAIN ac THEN ac
    ELSE IF ac[user_id] \ {websocket} = {}
    THEN [u \in DOMAIN ac \ {user_id} |-> ac[u]]
    ELSE [ac EXCEPT ![user_id] = @ \ {websocket}]

\* for ws in disconnected: self.disconnect(ws, user_id)
RECURSIVE disconnect_each(_, _, _)
disconnect_each(ac, disconnected, user_id) ==
    IF disconnected = {} THEN ac
    ELSE LET ws == CHOOSE w \in disconnected : TRUE
         IN  disconnect_each(disconnect(ac, ws, user_id), disconnected \ {ws}, user_id)

\* A call in its loop holds the set object it found in the registry.  When
\* the user's key is deleted that object is left empty and is no longer the
\* registry's: a later connect makes a new set.
Detach(ss, ac, ac2) ==
    [c \in DOMAIN ss |->
        IF ss[c].pc = "sending" /\ ss[c].user_id \in DOMAIN ac /\ ss[c].user_id \notin DOMAIN ac2
        THEN [ss[c] EXCEPT !.detached = TRUE]
        ELSE ss[c]]

\* the set a call iterates, as it is now
Iterated(s, ac) == IF s.detached THEN {} ELSE get_user_connections(ac, s.user_id)

\* the message handle_task_update builds; the timestamp is the message's
\* time, carried over as it is, and is left out
task_update_message(event) ==
    [ type    |-> "task_update",
      action  |-> action_of(event.type),
      task_id |-> event.data.task_id,
      task    |-> event.data.task_data ]

\* a message of task-updates without a user_id
NoUser == "none"

\* A client opens /ws/{user_id}: websocket_endpoint awaits manager.connect.
Connect(ws, user_id) ==
    /\ sockets[ws].state = "new"
    /\ sockets' = [sockets EXCEPT ![ws] = [@ EXCEPT !.user_id = user_id, !.state = "open"]]
    /\ active_connections' = connect(active_connections, ws, user_id)
    /\ UNCHANGED <<backendVars, clock, nextUuid, recurringVars, auditVars, deliveries, sends>>

\* The client of an open connection goes away.
Close(ws) ==
    /\ sockets[ws].state = "open"
    /\ sockets' = [sockets EXCEPT ![ws].state = "gone"]
    /\ UNCHANGED <<backendVars, clock, nextUuid, recurringVars, auditVars, deliveries,
                   active_connections, sends>>

\* websocket_endpoint: receive_text raises WebSocketDisconnect and the
\* handler calls manager.disconnect.
Disconnect(ws) ==
    /\ sockets[ws].state = "gone"
    /\ sockets' = [sockets EXCEPT ![ws].state = "ended"]
    /\ active_connections' = disconnect(active_connections, ws, sockets[ws].user_id)
    /\ sends' = Detach(sends, active_connections, active_connections')
    /\ UNCHANGED <<backendVars, clock, nextUuid, recurringVars, auditVars, deliveries>>

\* what the endpoint answered for a message, for the history
Answered(event, raised, initial, attempted, failed) ==
    [service |-> "websocket", event |-> event, raised |-> raised,
     status |-> try_except(raised), initial |-> initial, attempted |-> attempted,
     failed |-> failed]

\* Dapr delivers a message of task-updates: receive_task_update,
\* handle_task_update and send_to_user up to its first await.
Deliver_websocket(c, event) ==
    /\ sends[c].pc = "idle"
    /\ LET user_id     == event.data.user_id
           connections == get_user_connections(active_connections, user_id)
       IN  IF event = Malformed
           THEN /\ deliveries' = Append(deliveries,
                                        Answered(event, "JSONDecodeError", {}, {}, {}))
                /\ UNCHANGED sends
           ELSE IF logger_info([event_type |-> event.type]) # "none"
           THEN /\ deliveries' = Append(deliveries, Answered(event, "TypeError", {}, {}, {}))
                /\ UNCHANGED sends
           ELSE IF user_id = NoUser \/ connections = {}
           THEN /\ deliveries' = Append(deliveries, Answered(event, "none", {}, {}, {}))
                /\ UNCHANGED sends
           ELSE /\ \E websocket \in connections :
                     sends' = [sends EXCEPT ![c] =
                                 [ pc |-> "sending", event |-> event, user_id |-> user_id,
                                   message |-> task_update_message(event),
                                   used |-> Cardinality(connections),
                                   initial |-> connections, visited |-> {},
                                   websocket |-> websocket, disconnected |-> {},
                                   detached |-> FALSE ]]
                /\ UNCHANGED deliveries
    /\ UNCHANGED <<backendVars, clock, nextUuid, recurringVars, auditVars,
                   active_connections, sockets>>

\* await websocket.send_json(message) of a send_to_user call returns or
\* raises; the loop goes on to the next connection, or ends and the
\* connections whose send raised are disconnected.
send_json_returns(c) ==
    /\ sends[c].pc = "sending"
    /\ LET s    == sends[c]
           ws   == s.websocket
           sent == sockets[ws].state = "open"
           disconnected == IF sent THEN s.disconnected ELSE s.disconnected \cup {ws}
           visited == s.visited \cup {ws}
           live == Iterated(s, active_connections)
       IN  /\ sockets' = IF sent
                         THEN [sockets EXCEPT ![ws].inbox = Append(@, s.message)]
                         ELSE sockets
           /\ IF Cardinality(live) # s.used
              THEN \* RuntimeError: Set changed size during iteration
                   /\ deliveries' = Append(deliveries,
                                           Answered(s.event, "RuntimeError", s.initial,
                                                    visited, disconnected))
                   /\ sends' = [sends EXCEPT ![c] = IdleSend]
                   /\ UNCHANGED active_connections
              ELSE \/ \E next \in live \ visited :
                        /\ sends' = [sends EXCEPT ![c] =
                                        [s EXCEPT !.websocket = next, !.visited = visited,
                                                  !.disconnected = disconnected]]
                        /\ UNCHANGED <<deliveries, active_connections>>
                   \/ /\ (live \ visited) \cap s.initial = {}
                      /\ active_connections' =
                            disconnect_each(active_connections, disconnected, s.user_id)
                      /\ sends' = [Detach(sends, active_connections, active_connections')
                                     EXCEPT ![c] = IdleSend]
                      /\ deliveries' = Append(deliveries,
                                              Answered(s.event, "none", s.initial, visited,
                                                       disconnected))
    /\ UNCHANGED <<backendVars, clock, nextUuid, recurringVars, auditVars>>

\* The messages of task-updates: an update of each user's task, and one
\* without a user_id.
UpdateEvents ==
    { CloudEvent(1, UPDATED, str_uuid(1), "u1", Snapshot("u1", NoDue, NoDue, Null),
                 [source_action |-> "api"]),
      CloudEvent(2, CREATED, str_uuid(2), "u2", Snapshot("u2", NoDue, NoDue, Null),
                 [source_action |-> "api"]),
      CloudEvent(3, DELETED, str_uuid(3), NoUser, NoTask, [source_action |-> "api"]) }

(***************************************************************************)
(* The websocket-service: clients come and go while messages of            *)
(* task-updates are fanned out.                                            *)
(***************************************************************************)
MaxFanout == 1   \* messages of task-updates delivered in one run

\* the send_to_user calls in flight
Sending == {c \in Senders : sends[c].pc = "sending"}

\* WebSocket objects are opened in the order of their numbers, and a call
\* takes the first free slot: which object or slot it is makes no difference.
NextSocket(ws) == \A w \in Sockets : w < ws => sockets[w].state # "new"
FreeSlot(c) == sends[c].pc = "idle" /\ \A d \in Senders : d < c => sends[d].pc # "idle"

NextFanout ==
    \/ \E ws \in Sockets, u \in Users : NextSocket(ws) /\ Connect(ws, u)
    \/ \E ws \in Sockets : Close(ws)
    \/ \E ws \in Sockets : Disconnect(ws)
    \/ /\ Len(deliveries) + Cardinality(Sending) < MaxFanout
       /\ \E c \in Senders, e \in UpdateEvents \cup {Malformed} :
            FreeSlot(c) /\ Deliver_websocket(c, e)
    \/ \E c \in Senders : send_json_returns(c)

SpecFanout == Init /\ [][NextFanout]_vars

(***************************************************************************)
(* websocket-service/src/main.py: websocket_endpoint, the loop that reads  *)
(* the client's frames and answers each with an ack.                       *)
(*                                                                         *)
(* A connection is "open" while the loop awaits receive_text with the      *)
(* client there, "acking" while it awaits the send_json of the ack, "gone" *)
(* and "acking_gone" when the client has left and the loop has not yet     *)
(* seen it, "ended" when the loop ended in the except branch, and          *)
(* "crashed" when it ended with an exception the endpoint does not catch.  *)
(***************************************************************************)
MaxFrames == 2   \* frames a client sends on one connection

AckFrame == [type |-> "ack", message |-> "received"]

\* The client sends a frame.  receive_text returns the text of a text frame;
\* for a binary frame the message has no "text" and it raises KeyError,
\* which ends the endpoint outside its except branch.
Frame(ws, kind) ==
    /\ sockets[ws].state = "open"
    /\ sockets[ws].frames < MaxFrames
    /\ sockets' = [sockets EXCEPT ![ws] =
                      [@ EXCEPT !.frames = @ + 1,
                                !.state  = IF kind = "text" THEN "acking" ELSE "crashed"]]
    /\ UNCHANGED <<backendVars, clock, nextUuid, recurringVars, auditVars, deliveries,
                   active_connections, sends>>

\* send_json of the ack returns and the loop awaits the next frame.
ack_returns(ws) ==
    /\ sockets[ws].state = "acking"
    /\ sockets' = [sockets EXCEPT ![ws] =
                      [@ EXCEPT !.inbox = Append(@, AckFrame), !.state = "open"]]
    /\ UNCHANGED <<backendVars, clock, nextUuid, recurringVars, auditVars, deliveries,
                   active_connections, sends>>

\* The client goes away while the ack is being sent.
Leave(ws) ==
    /\ sockets[ws].state = "acking"
    /\ sockets' = [sockets EXCEPT ![ws].state = "acking_gone"]
    /\ UNCHANGED <<backendVars, clock, nextUuid, recurringVars, auditVars, deliveries,
                   active_connections, sends>>

\* How send_json to a client that has left can end: it returns (the frame is
\* lost), it raises WebSocketDisconnect (Starlette turns an OSError of the
\* server into it), or it raises the server's own error (RuntimeError,
\* ConnectionClosed): which one depends on the installed Starlette and
\* server, which the repository does not pin.
AckFailures == {"returns", "WebSocketDisconnect", "RuntimeError"}

\* send_json of the ack to a client that has left.  Only WebSocketDisconnect
\* reaches the except branch and manager.disconnect.
ack_fails(ws, outcome) ==
    /\ sockets[ws].state = "acking_gone"
    /\ sockets' = [sockets EXCEPT ![ws].state =
                      CASE outcome = "returns"             -> "gone"
                        [] outcome = "WebSocketDisconnect" -> "ended"
                        [] OTHER                           -> "crashed"]
    /\ active_connections' = IF outcome = "WebSocketDisconnect"
                             THEN disconnect(active_connections, ws, sockets[ws].user_id)
                             ELSE active_connections
    /\ sends' = Detach(sends, active_connections, active_connections')
    /\ UNCHANGED <<backendVars, clock, nextUuid, recurringVars, auditVars, deliveries>>

NextEndpoint ==
    \/ \E ws \in Sockets, user_id \in {"u1", "u2"} : NextSocket(ws) /\ Connect(ws, user_id)
    \/ \E ws \in Sockets, kind \in {"text", "bytes"} : Frame(ws, kind)
    \/ \E ws \in Sockets : ack_returns(ws)
    \/ \E ws \in Sockets : Close(ws)
    \/ \E ws \in Sockets : Leave(ws)
    \/ \E ws \in Sockets, outcome \in AckFailures : ack_fails(ws, outcome)
    \/ \E ws \in Sockets : Disconnect(ws)

SpecEndpoint == Init /\ [][NextEndpoint]_vars

(***************************************************************************)
(* notification-service: main.py and handlers.py                           *)
(***************************************************************************)
\* The channels handle_reminder_event has a sender for; any other entry of
\* the list is skipped.
KnownChannels == {"in_app", "email", "push"}

\* Position of the first channel whose sender raises, 0 when none does.
FirstFailure(channels, failing) ==
    IF \E k \in DOMAIN channels : channels[k] \in failing
    THEN CHOOSE k \in DOMAIN channels :
            /\ channels[k] \in failing
            /\ \A j \in 1..(k - 1) : channels[j] \notin failing
    ELSE 0

\* handle_reminder_event: one sender per channel it knows, in the order of
\* the list, awaited one after the other with no try around it: the first
\* sender that raises ends the loop.  `failing` is the set of channels whose
\* sender raises (the senders only write a log line).
handle_reminder_event(event, failing) ==
    LET channels == IF "notification_channels" \in DOMAIN event.data
                    THEN event.data.notification_channels ELSE <<"in_app">>
        known    == SelectSeq(channels, LAMBDA channel : channel \in KnownChannels)
        f        == FirstFailure(known, failing)
    IN  [ raised    |-> IF f = 0 THEN "none" ELSE "OSError",
          attempted |-> IF f = 0 THEN known ELSE SubSeq(known, 1, f),
          sent      |-> IF f = 0 THEN known ELSE SubSeq(known, 1, f - 1) ]

\* POST /events/reminder of the notification-service
receive_reminder(body, failing) ==
    IF body = Malformed
    THEN [status |-> try_except("JSONDecodeError"), raised |-> "JSONDecodeError",
          attempted |-> <<>>, sent |-> <<>>]
    ELSE LET log == logger_info([event |-> body])
             h   == handle_reminder_event(body, failing)
         IN  IF log # "none"
             THEN [status |-> try_except(log), raised |-> log,
                   attempted |-> <<>>, sent |-> <<>>]
             ELSE [status |-> try_except(h.raised), raised |-> h.raised,
                   attempted |-> h.attempted, sent |-> h.sent]

\* Dapr delivers a message of reminders to the notification-service.
Deliver_notification(event, failing) ==
    LET r == receive_reminder(event, failing)
    IN  /\ deliveries' = Append(deliveries, [service |-> "notification", event |-> event,
                                             raised |-> r.raised, status |-> r.status,
                                             attempted |-> r.attempted, sent |-> r.sent])
        /\ UNCHANGED <<fanoutVars, backendVars, clock, nextUuid, recurringVars, auditVars>>

\* handle_reminder_event called with the event, without the endpoint.
Call_handle_reminder_event(event, failing) ==
    LET h == handle_reminder_event(event, failing)
    IN  /\ deliveries' = Append(deliveries, [service |-> "handle_reminder_event",
                                             event |-> event,
                                             raised |-> h.raised, status |-> "none",
                                             attempted |-> h.attempted, sent |-> h.sent])
        /\ UNCHANGED <<fanoutVars, backendVars, clock, nextUuid, recurringVars, auditVars>>

\* The messages of reminders: the one reminder_callback publishes.
ReminderEvents ==
    { ReminderDueEvent([task_id |-> str_uuid(1), user_id |-> "u1", title |-> <<"a">>,
                        due_at |-> isoformat(2), remind_at |-> isoformat(1)], 1) }

\* Lists of at most MaxChannels channels, "sms" being one the handler has no
\* sender for.
MaxChannels == 2

ChannelLists ==
    UNION { [1..n -> KnownChannels \cup {"sms"}] : n \in 1..MaxChannels }

\* reminder.due messages as the schema of ReminderDueEvent allows them: any
\* list of channels, and one message without the field.
WithChannels(event, channels) ==
    [event EXCEPT !.data = [event.data EXCEPT !.notification_channels = channels]]

ChannelEvents ==
    LET e == CHOOSE r \in ReminderEvents : TRUE
    IN  { WithChannels(e, channels) : channels \in ChannelLists }
        \cup { [e EXCEPT !.data = [task_id |-> e.data.task_id, title |-> e.data.title,
                                   due_at |-> e.data.due_at, remind_at |-> e.data.remind_at,
                                   user_id |-> e.data.user_id]] }

MaxReminders == 2   \* reminder messages handled in one run

\* The notification-service: messages of reminders delivered to its
\* endpoint, and its handler called with the same messages; at most one
\* sender fails in a call.
NextReminder ==
    \/ /\ Len(deliveries) < MaxReminders
       /\ \E e \in ChannelEvents \cup {Malformed}, failing \in {{}} \cup {{c} : c \in KnownChannels} :
            Deliver_notification(e, failing)
    \/ /\ Len(deliveries) < MaxReminders
       /\ \E e \in ChannelEvents, failing \in {{}} \cup {{c} : c \in KnownChannels} :
            Call_handle_reminder_event(e, failing)

SpecReminder == Init /\ [][NextReminder]_vars

(***************************************************************************)
(* The four consumers together, each given well-formed and malformed       *)
(* messages of its topic.                                                  *)
(***************************************************************************)
MaxConsumed == 2   \* messages delivered to the consumers in one run

RecurringSample ==
    { e \in TaskEvents : e.data.task_data # NoTask /\ e.data.task_data.due_at # NoDue
                         /\ e.data.task_data.due_at.date = <<2026, 2, 10>> }

UpdateSample == { e \in UpdateEvents : e.data.user_id = "u1" }

NextConsumers ==
    \/ /\ Len(deliveries) + Cardinality(Sending) < MaxConsumed
       /\ \E e \in RecurringSample \cup {Malformed} : Deliver_recurring(e, "201")
    \/ /\ Len(deliveries) + Cardinality(Sending) < MaxConsumed
       /\ \E e \in RecurringSample \cup {Malformed}, o \in {"ok", "http_error"} :
            Deliver_audit(e, o)
    \/ /\ Len(deliveries) + Cardinality(Sending) < MaxConsumed
       /\ \E e \in ReminderEvents \cup {Malformed} : Deliver_notification(e, {})
    \/ /\ Len(deliveries) + Cardinality(Sending) < MaxConsumed
       /\ \E c \in Senders, e \in UpdateSample \cup {Malformed} :
            FreeSlot(c) /\ Deliver_websocket(c, e)
    \/ \E c \in Senders : send_json_returns(c)
    \/ \E ws \in Sockets : NextSocket(ws) /\ Connect(ws, "u1")

SpecConsumers == Init /\ [][NextConsumers]_vars

(***************************************************************************)
(* Properties of the recurrence consumer                                   *)
(***************************************************************************)
\* the day after a calendar date
NextDay(date) ==
    IF date[3] < DaysInMonth(date[1], date[2]) THEN <<date[1], date[2], date[3] + 1>>
    ELSE IF date[2] < 12 THEN <<date[1], date[2] + 1, 1>>
    ELSE <<date[1] + 1, 1, 1>>

RECURSIVE DaysLater(_, _)
DaysLater(date, n) == IF n = 0 THEN date ELSE DaysLater(NextDay(date), n - 1)

\* the same day of the next calendar month, or that month's last day
MonthLater(date) ==
    LET y == IF date[2] = 12 THEN date[1] + 1 ELSE date[1]
        m == IF date[2] = 12 THEN 1 ELSE date[2] + 1
    IN  IF \E d \in 1..DaysInMonth(y, m) : d = date[3]
        THEN <<y, m, date[3]>>
        ELSE <<y, m, DaysInMonth(y, m)>>

\* the base of a call: its current_due, or the time of the call when absent
BaseOf(c) ==
    IF c.current_due = NoDue THEN utcnow(c.now)
    ELSE datetime(c.current_due.date, c.current_due.hour, c.current_due.tz # "")

\* C21: calculate_next_due returns the base plus one day for daily, plus seven
\* days for weekly, the same day of the next calendar month (clamped to that
\* month's last day, December rolling into January of the next year) for
\* monthly, and the base plus one day for an unknown pattern; the base is
\* current_due, or the current time when current_due is absent.
C21_NextDue ==
    \A i \in 1..Len(next_dues) :
        LET c    == next_dues[i]
            base == BaseOf(c)
        IN  /\ c.result.error = "none"
            /\ c.result.hour = base.hour
            /\ c.result.aware = base.aware
            /\ c.result.date = CASE c.pattern = "daily"   -> DaysLater(base.date, 1)
                                 [] c.pattern = "weekly"  -> DaysLater(base.date, 7)
                                 [] c.pattern = "monthly" -> MonthLater(base.date)
                                 [] OTHER                 -> DaysLater(base.date, 1)

\* A monthly call on 31 January 2025 has returned 28 February 2025.
C21_Witness ==
    \E i \in 1..Len(next_dues) :
        /\ next_dues[i].pattern = "monthly"
        /\ next_dues[i].current_due # NoDue
        /\ next_dues[i].current_due.date = <<2025, 1, 31>>
        /\ next_dues[i].result.date = <<2025, 2, 28>>

\* C22: two calls of calculate_next_due with the same (current_due, pattern)
\* return the same timestamp, also when current_due is absent.
C22_Deterministic ==
    \A i, j \in 1..Len(next_dues) :
        /\ next_dues[i].current_due = next_dues[j].current_due
        /\ next_dues[i].pattern = next_dues[j].pattern
        => next_dues[i].result = next_dues[j].result

\* the deliveries made to one consumer
DeliveriesTo(service) ==
    { deliveries[i] : i \in { k \in 1..Len(deliveries) : deliveries[k].service = service } }

\* a message is the completion of a recurring task
CompletedRecurring(event) ==
    /\ event.type = COMPLETED_EVT
    /\ event.data.task_data # NoTask
    /\ event.data.task_data.recurrence_pattern # Null

\* C23: the recurrence consumer creates a next occurrence only for a
\* task.completed message whose snapshot has a recurrence pattern; for every
\* other message (created, updated, deleted, completed without a pattern,
\* completed without a snapshot) it creates nothing and answers SUCCESS.
C23_OnlyCompletedRecurring ==
    \A d \in DeliveriesTo("recurring") :
        /\ d.task # NoTask => CompletedRecurring(d.event)
        /\ ~CompletedRecurring(d.event) => d.task = NoTask /\ d.status = SUCCESS

\* the timestamp a string writes, read field by field
Written(s) == [date |-> s.date, hour |-> s.hour]
When(dt) == [date |-> dt.date, hour |-> dt.hour]

\* C24: for a completed recurring task, with the backend answering, the
\* consumer creates a task of the same user that is pending, has the title,
\* description, priority, tags and recurrence pattern of the original, and is
\* due at calculate_next_due of the original due_at.
C24_NextOccurrence ==
    \A i \in 1..Len(occurrences) :
        LET o  == occurrences[i]
            td == o.event.data.task_data
        IN  CompletedRecurring(o.event) /\ o.resp = "201"
            => /\ o.task # NoTask
               /\ o.task.user_id = td.user_id
               /\ o.task.status = PENDING
               /\ o.task.title = td.title
               /\ o.task.description = td.description
               /\ o.task.priority = td.priority
               /\ o.task.tags = td.tags
               /\ o.task.recurrence_pattern = td.recurrence_pattern
               /\ When(o.task.due_at)
                    = When(calculate_next_due(td.due_at, td.recurrence_pattern, o.now))

\* hours between two timestamps, counted day by day
RECURSIVE DaysBetween(_, _)
DaysBetween(from, to) == IF from = to THEN 0 ELSE 1 + DaysBetween(NextDay(from), to)

LastSegment(type) ==
    CASE type = "task.created"   -> "created"
      [] type = "task.updated"   -> "updated"
      [] type = "task.completed" -> "completed"
      [] type = "task.deleted"   -> "deleted"
      [] OTHER                   -> type

\* the messages the audit recorder was given, in order
Audited == SelectSeq(deliveries, LAMBDA d : d.service = "audit" /\ d.event # Malformed)

\* C27: for every message of task-events the audit recorder builds exactly
\* one audit entry: its action is the trailing segment of the type, its
\* task_id, user_id and task_snapshot are the message's, its previous_state is
\* the metadata's previous_state when there is one, its source the metadata's
\* source_action; the entries of two deliveries are different entries.
C27_OneEntryPerEvent ==
    /\ nextEntry = Len(Audited)
    /\ \A i \in 1..Len(Audited) :
        LET e     == Audited[i].event
            entry == Audited[i].entry
        IN  /\ entry # NoTask
            /\ entry.id = str_uuid(i)
            /\ entry.action = LastSegment(e.type)
            /\ entry.task_id = e.data.task_id
            /\ entry.user_id = e.data.user_id
            /\ entry.task_snapshot = e.data.task_data
            /\ "previous_state" \in DOMAIN e.data.metadata
                 => entry.previous_state = e.data.metadata.previous_state
            /\ "source_action" \in DOMAIN e.data.metadata
                 => entry.source = e.data.metadata.source_action
            /\ Audited[i].saved
                 => \E k \in DOMAIN audit_state : audit_state[k].value = entry

\* The entry of a task.updated message that carries the state before the
\* update has been stored.
C27_Witness ==
    \E k \in DOMAIN audit_state :
        /\ audit_state[k].value.action = "updated"
        /\ audit_state[k].value.previous_state # NoTask
        /\ audit_state[k].value.source = "chat"

\* C28: the audit entries are append-only: a step writes at most one entry,
\* under a key audit:{user_id}:{entry_id} the store did not hold, and leaves
\* every entry already stored as it was.
C28_AppendOnly ==
    [][ /\ Len(audit_state') <= Len(audit_state) + 1
        /\ \A k \in DOMAIN audit_state :
              /\ k \in DOMAIN audit_state'
              /\ audit_state'[k] = audit_state[k]
        /\ \A k \in DOMAIN audit_state' \ DOMAIN audit_state :
              /\ audit_state'[k].key \notin Keys(audit_state)
              /\ audit_state'[k].key = <<"audit", audit_state'[k].value.user_id,
                                         audit_state'[k].value.id>> ]_vars

\* A message has been delivered twice and the store holds an entry for each
\* delivery.
C28_Witness ==
    \E j, k \in DOMAIN audit_state :
        /\ j # k
        /\ audit_state[j].value.event_id = audit_state[k].value.event_id
        /\ audit_state[j].key # audit_state[k].key

\* C29: when the write of an audit entry fails, the audit recorder still
\* answers SUCCESS, and the store holds no entry for that delivery.
C29_SaveFailureAcknowledged ==
    \A i \in 1..Len(Audited) :
        ~Audited[i].saved
        => /\ Audited[i].status = SUCCESS
           /\ audit_key(Audited[i].entry) \notin Keys(audit_state)
           /\ \A k \in DOMAIN audit_state : audit_state[k].value.id # Audited[i].entry.id

\* The write of an entry has failed and the delivery was acknowledged.
C29_Witness ==
    \E i \in 1..Len(Audited) :
        /\ ~Audited[i].saved
        /\ Audited[i].raised = "none"
        /\ Audited[i].status = SUCCESS

(***************************************************************************)
(* Properties of the fan-out                                               *)
(***************************************************************************)
\* a step in which a send_to_user call for a user returns to its caller
SendReturns(d) ==
    /\ d.service = "websocket"
    /\ d.event # Malformed
    /\ d.event.data.user_id # NoUser

\* C30: a send_to_user call for a user without a connection does nothing;
\* for a user with connections it attempts each of them, the connections
\* whose send failed are gone from the registry when it returns, those whose
\* send succeeded have received the message and are not removed by it, and
\* no error reaches the caller.
C30_SendToUser ==
    [][ \A d \in {deliveries'[k] : k \in DOMAIN deliveries' \ DOMAIN deliveries} :
          SendReturns(d)
          => LET user_id == d.event.data.user_id
                 before  == get_user_connections(active_connections, user_id)
                 after   == get_user_connections(active_connections', user_id)
             IN  /\ d.raised = "none"
                 /\ d.initial = {} => /\ active_connections' = active_connections
                                      /\ sockets' = sockets
                 /\ d.attempted = d.initial
                 /\ d.failed \cap after = {}
                 /\ \A ws \in d.attempted \ d.failed :
                       /\ \E k \in DOMAIN sockets'[ws].inbox :
                             sockets'[ws].inbox[k] = task_update_message(d.event)
                       /\ ws \in before => ws \in after ]_vars

(***************************************************************************)
(* Properties of the consumers' endpoints                                  *)
(***************************************************************************)
Consumers == {"recurring", "audit", "websocket", "notification"}

\* C26: each of the four consumer endpoints answers RETRY for a delivery in
\* which an error was raised, and SUCCESS only for one that ran to its end
\* without an error.
C26_RetryIffRaised ==
    \A i \in 1..Len(deliveries) :
        /\ deliveries[i].service \in Consumers
        /\ deliveries[i].status \in {SUCCESS, RETRY}
        /\ deliveries[i].raised # "none" => deliveries[i].status = RETRY
        /\ deliveries[i].status = SUCCESS => deliveries[i].raised = "none"

\* A fan-out that raised in its loop was answered RETRY and an audit delivery
\* whose write failed inside the handler was answered SUCCESS.
C26_Witness ==
    \E i, j \in 1..Len(deliveries) :
        /\ deliveries[i].service = "websocket"
        /\ deliveries[i].raised = "RuntimeError"
        /\ deliveries[i].status = RETRY
        /\ deliveries[j].service = "audit"
        /\ deliveries[j].raised = "none"
        /\ ~deliveries[j].saved
        /\ deliveries[j].status = SUCCESS

\* a socket holds the task_update message built from an event
Holds(ws, event) ==
    \E k \in DOMAIN sockets[ws].inbox : sockets[ws].inbox[k] = task_update_message(event)

\* C31: a send_to_user call returns without an error whatever connects or
\* disconnects for the same user while it awaits a send, and every
\* connection that was registered when it started and is still open when it
\* returns has been given the message.
C31_SnapshotIteration ==
    [][ \A d \in {deliveries'[k] : k \in DOMAIN deliveries' \ DOMAIN deliveries} :
          SendReturns(d)
          => /\ d.raised = "none"
             /\ \A ws \in d.initial :
                   sockets'[ws].state = "open"
                   => \E k \in DOMAIN sockets'[ws].inbox :
                         sockets'[ws].inbox[k] = task_update_message(d.event) ]_vars

Listed_channels(event) ==
    SelectSeq(IF "notification_channels" \in DOMAIN event.data
              THEN event.data.notification_channels ELSE <<"in_app">>,
              LAMBDA channel : channel \in KnownChannels)

\* C34: for every reminder.due message, delivered to the endpoint or handed
\* to the handler, a delivery is attempted on every channel of its list the
\* service has a sender for, whether or not an earlier sender failed.
C34_EveryChannelAttempted ==
    \A i \in 1..Len(deliveries) :
        (/\ deliveries[i].service \in {"notification", "handle_reminder_event"}
         /\ deliveries[i].event # Malformed)
            => deliveries[i].attempted = Listed_channels(deliveries[i].event)

(***************************************************************************)
(* Properties of list_tasks                                                *)
(***************************************************************************)
\* The caller's tasks that pass every filter given, in the order of the
\* store.
Satisfies(filters, user_id, task) ==
    /\ task.user_id = user_id
    /\ filters.status # Null => task.status = filters.status
    /\ filters.priority # Null => task.priority = filters.priority
    /\ filters.due_before # NoTime => task.due_at # NoTime /\ task.due_at < filters.due_before
    /\ filters.due_after # NoTime => task.due_at # NoTime /\ task.due_at > filters.due_after
    /\ Listed(filters, task)

RECURSIVE Filtered(_, _, _)
Filtered(filters, user_id, s) ==
    IF s = <<>> THEN <<>>
    ELSE LET rest == Filtered(filters, user_id, Tail(s))
         IN  IF IsTaskKey(Head(s)) /\ Satisfies(filters, user_id, model_validate(Head(s).value))
             THEN <<model_validate(Head(s).value)>> \o rest
             ELSE rest

\* C35: a list_tasks call returns total = the number of the caller's tasks
\* that pass the status, priority, due-date, search and tag filters given,
\* and the tasks at positions (page-1)*page_size+1 .. page*page_size of them.
C35_ListFiltered ==
    [][ \A r \in Slots :
            reqs[r].pc = "query" /\ reqs'[r].pc = "done" =>
                LET ret      == reqs'[r].ret
                    filters  == reqs[r].arg
                    expected == Filtered(filters, reqs[r].user_id, store)
                    start    == (filters.page - 1) * filters.page_size
                IN /\ ret.total = Len(expected)
                   /\ ret.tasks = Slice(expected, start, start + filters.page_size) ]_vars

(***************************************************************************)
(* Properties of the recurrence consumer under redelivery                  *)
(***************************************************************************)
\* C36: every delivery of a task.completed message of a recurring task, the
\* backend answering, creates a task of its own: two deliveries of the same
\* message leave two tasks with different ids and the same due_at.
C36_NotIdempotent ==
    \A i \in 1..Len(deliveries) :
        LET d == deliveries[i] IN
        (d.service = "recurring" /\ CompletedRecurring(d.event) /\ d.resp = "201")
            => /\ d.task # NoTask
               /\ \A j \in 1..Len(deliveries) :
                    (/\ j # i
                     /\ deliveries[j].service = "recurring"
                     /\ deliveries[j].event = d.event
                     /\ deliveries[j].resp = "201")
                        => /\ deliveries[j].task # NoTask
                           /\ deliveries[j].task.id # d.task.id
                           /\ deliveries[j].task.due_at = d.task.due_at

\* a next occurrence was created for the message
Created(event) ==
    \E i \in 1..Len(deliveries) :
        /\ deliveries[i].service = "recurring"
        /\ deliveries[i].event = event
        /\ deliveries[i].task # NoTask

\* C37: every task.completed message of a recurring task that was published
\* leads, under redelivery after RETRY, to a next occurrence being created.
C37_EventuallyCreated ==
    \A e \in RedeliveredEvents :
        (Held(e) /\ CompletedRecurring(e)) ~> Created(e)

(***************************************************************************)
(* Properties of the WebSocket endpoint                                    *)
(***************************************************************************)
Acks(ws) == Len(SelectSeq(sockets[ws].inbox, LAMBDA m : m = AckFrame))

Registered(ws) == \E u \in DOMAIN active_connections : ws \in active_connections[u]

\* the states in which websocket_endpoint is still in its loop
Running == {"open", "acking", "gone", "acking_gone"}

\* C38: a connection whose loop awaits the next frame has received one ack
\* for every frame it sent, and the registry holds only connections whose
\* endpoint loop is still running.
C38_AckedAndRegistered ==
    \A ws \in Sockets :
        /\ sockets[ws].state = "open" => Acks(ws) = sockets[ws].frames
        /\ Registered(ws) => sockets[ws].state \in Running

(***************************************************************************)
(* Properties of the backend under concurrent requests on one task         *)
(***************************************************************************)
\* the request has published this kind of event of the task on task-events
PublishedEvent(rq, type, task_id) ==
    \E i \in DOMAIN rq.pubs :
        /\ rq.pubs[i].topic = TOPIC_TASK_EVENTS
        /\ rq.pubs[i].outcome = "ok"
        /\ rq.pubs[i].event.type = type
        /\ rq.pubs[i].event.data.task_id = task_id

\* C39: whenever an event of a task enters task-events, no deleted event of
\* that task has entered it before, and unless the event is the task's
\* created event, the created event is not still waiting to be published.
C39_LifecycleOrder ==
    [][ \A r \in Slots :
            (/\ reqs[r].pc = "pub1"
             /\ Len(reqs'[r].pubs) = Len(reqs[r].pubs) + 1
             /\ reqs'[r].pubs[Len(reqs'[r].pubs)].outcome = "ok")
            => LET e == reqs[r].event
                   t == e.data.task_id
               IN  \A q \in Slots \ {r} :
                     /\ ~PublishedEvent(reqs[q], DELETED, t)
                     /\ e.type # CREATED =>
                          ~(/\ reqs[q].op = "create_task"
                            /\ reqs[q].pc = "pub1"
                            /\ reqs[q].event.data.task_id = t) ]_vars

\* no request is in progress
Quiescent == \A r \in Slots : reqs[r].pc \in {"idle", "done"}

\* C40: when no request is in progress, every live reminder job belongs to
\* a task that is in the store, pending, and has remind_at set.
C40_JobsOnlyForPending ==
    Quiescent =>
        \A name \in DOMAIN jobs :
            LET key == get_state_key(name[2], name[3])
            IN  /\ key \in Keys(store)
                /\ get_task(store, name[2], name[3]).status = PENDING
                /\ get_task(store, name[2], name[3]).remind_at # NoTime

====
